---------------------------- MODULE Spec2Model ----------------------------
(***************************************************************************)
(* sockpp: the packet codec (Packet.cpp) and the framed stream send and    *)
(* receive of TcpSocket, as state machines.                                *)
(*                                                                         *)
(* An integer of w bytes is a sequence of w base-256 digits, least         *)
(* significant digit first: d[1] has weight 256^0, d[w] has weight         *)
(* 256^(w-1).  The bit pattern of a signed integer is the digit sequence   *)
(* of its two's complement.  All arithmetic on std::size_t and on the      *)
(* 32- and 64-bit integers is done on these digits, at the width of the    *)
(* type, so that wrap-around is what the machine computes.                 *)
(***************************************************************************)
EXTENDS Integers, Sequences, FiniteSets, TLC

VARIABLES
  packet,      \* the Packet: m_data, m_readPos, m_sendPos, m_isValid
  out,         \* the caller's variable as the last extraction left it, else <<>>
  lastOp,      \* the last operation on the packet and its arguments
  host,        \* byte order of the host: "little" or "big"
  sizeW,       \* sizeof(std::size_t) of the build: 4 or 8
  pc,          \* position of the caller that drives the running specification
  input,       \* what that caller was given to work on
  tcp,         \* the TcpSocket: m_pendingPacket, m_blockToSendBuffer
  net,         \* the transport under the TcpSocket and what the caller saw
  sockets,     \* the Socket objects: m_type, m_socket, m_isBlocking
  os,          \* the OS: its socket handles and the calls made to it
  selector     \* the SocketSelector: its registrations and last snapshot

vars == <<packet, out, lastOp, host, sizeW, pc, input, tcp, net,
          sockets, os, selector>>

(***************************************************************************)
(* Bounds.                                                                 *)
(***************************************************************************)
MaxData == 8

(***************************************************************************)
(* Digit arithmetic.                                                       *)
(***************************************************************************)
Byte == 0..255

RECURSIVE Reverse(_)
Reverse(s) == IF s = <<>> THEN <<>> ELSE Reverse(Tail(s)) \o <<Head(s)>>

Zeros(n) == [i \in 1..n |-> 0]

\* n >= 0 as w digits (n mod 256^w)
RECURSIVE ToDigits(_, _)
ToDigits(n, w) ==
  IF w = 0 THEN <<>> ELSE <<n % 256>> \o ToDigits(n \div 256, w - 1)

\* the number a digit sequence denotes; only for sequences known to be small
RECURSIVE ToNat(_)
ToNat(d) == IF d = <<>> THEN 0 ELSE Head(d) + 256 * ToNat(Tail(d))

\* conversion of an unsigned integer to a wider or narrower unsigned type
Convert(d, w) ==
  IF Len(d) >= w THEN SubSeq(d, 1, w) ELSE d \o Zeros(w - Len(d))

RECURSIVE AddCarry(_, _, _)
AddCarry(a, b, c) ==
  IF a = <<>> THEN <<>>
  ELSE LET s == Head(a) + Head(b) + c
       IN  <<s % 256>> \o AddCarry(Tail(a), Tail(b), s \div 256)

\* a + b at the width of a (unsigned, wrapping)
Add(a, b) == AddCarry(a, b, 0)

RECURSIVE MulCarry(_, _, _)
MulCarry(a, k, c) ==
  IF a = <<>> THEN <<>>
  ELSE LET s == Head(a) * k + c
       IN  <<s % 256>> \o MulCarry(Tail(a), k, s \div 256)

\* a * k at the width of a (unsigned, wrapping), k a small factor
Mul(a, k) == MulCarry(a, k, 0)

RECURSIVE Less(_, _)
Less(a, b) ==
  IF a = <<>> THEN FALSE
  ELSE LET n == Len(a)
       IN  IF a[n] # b[n] THEN a[n] < b[n]
           ELSE Less(SubSeq(a, 1, n - 1), SubSeq(b, 1, n - 1))

LessEq(a, b) == a = b \/ Less(a, b)

IsZero(d) == \A i \in 1..Len(d) : d[i] = 0


\* bitwise OR of two values of n bits
RECURSIVE OrBits(_, _, _)
OrBits(a, b, n) ==
  IF n = 0 THEN 0
  ELSE (IF a % 2 = 1 \/ b % 2 = 1 THEN 1 ELSE 0)
       + 2 * OrBits(a \div 2, b \div 2, n - 1)

\* a | b on integers of the same width
Or(a, b) == [i \in 1..Len(a) |-> OrBits(a[i], b[i], 8)]

\* d << 8*k at the width of d
ShiftLeft(d, k) == SubSeq(Zeros(k) \o d, 1, Len(d))

\* d >> 8*k at the width of d: arithmetic for a signed type, logical otherwise
ShiftRight(signed, d, k) ==
  LET n    == Len(d)
      fill == IF signed /\ d[n] >= 128 THEN 255 ELSE 0
  IN  SubSeq(d, k + 1, n) \o [i \in 1..k |-> fill]

(***************************************************************************)
(* The scalar types of the codec.                                          *)
(***************************************************************************)
IntTypes == {"int8", "uint8", "int16", "uint16", "int32", "uint32",
             "int64", "uint64"}
FloatTypes == {"float", "double"}
ScalarTypes == {"bool"} \cup IntTypes \cup FloatTypes
StringTypes == {"cstring", "string", "wcstring", "wstring", "u32string"}

\* sizeof(T)
SizeOf(T) ==
  CASE T \in {"bool", "int8", "uint8"}     -> 1
    [] T \in {"int16", "uint16"}           -> 2
    [] T \in {"int32", "uint32", "float"}  -> 4
    [] T \in {"int64", "uint64", "double"} -> 8

IsSigned(T) == T \in {"int8", "int16", "int32", "int64"}

(***************************************************************************)
(* The host: byte-order conversions and the object representation that     *)
(* memcpy reads and writes.                                                *)
(***************************************************************************)
htons(d) == IF host = "little" THEN Reverse(d) ELSE d
htonl(d) == IF host = "little" THEN Reverse(d) ELSE d
\* faulty variant: the 16-bit value is not swapped back on a little-endian host
ntohsNoSwap(d) == d
ntohs(d) == IF host = "little" THEN Reverse(d) ELSE d
ntohl(d) == IF host = "little" THEN Reverse(d) ELSE d

\* the bytes of an integer object in memory, lowest address first
ObjectBytes(d) == IF host = "little" THEN d ELSE Reverse(d)
\* the integer whose object holds these bytes
ObjectValue(b) == IF host = "little" THEN b ELSE Reverse(b)

\* ToInteger<T>(bytes...): result |= T(bytes[i]) << 8*i, i = 0, 1, ...
RECURSIVE ToIntegerFold(_, _, _)
ToIntegerFold(result, bytes, i) ==
  IF i >= Len(bytes) THEN result
  ELSE ToIntegerFold(
         Or(result, ShiftLeft(Convert(<<bytes[i + 1]>>, Len(result)), i)),
         bytes, i + 1)

ToInteger(bytes) == ToIntegerFold(Zeros(Len(bytes)), bytes, 0)

(***************************************************************************)
(* Packet.                                                                 *)
(***************************************************************************)
\* faulty variant: the send cursor does not start at 0
NewPacketSendPosSet == [m_data |-> <<>>, m_readPos |-> 0, m_sendPos |-> 1,
                        m_isValid |-> TRUE]

NewPacket == [m_data |-> <<>>, m_readPos |-> 0, m_sendPos |-> 0,
              m_isValid |-> TRUE]

append(p, bytes) ==
  IF Len(bytes) > 0 THEN [p EXCEPT !.m_data = @ \o bytes] ELSE p

\* faulty variant: the buffer is kept
clearKeepsData(p) == [p EXCEPT !.m_readPos = 0, !.m_isValid = TRUE]

clear(p) == [p EXCEPT !.m_data = <<>>, !.m_readPos = 0, !.m_isValid = TRUE]

getDataSize(p) == Len(p.m_data)

getData(p) == p.m_data

endOfPacket(p) == p.m_readPos >= Len(p.m_data)

\* size is a std::size_t; the result is the packet with m_isValid updated,
\* and the value returned is its m_isValid
checkSize(p, size) ==
  LET pos               == ToDigits(p.m_readPos, sizeW)
      sum               == Add(pos, size)
      overflow_detected == Less(sum, pos)
  IN  [p EXCEPT !.m_isValid =
         @ /\ LessEq(sum, ToDigits(Len(p.m_data), sizeW))
           /\ ~overflow_detected]

\* faulty variant: ++m_readPos
AdvanceByOne(p, n) == [p EXCEPT !.m_readPos = @ + 1]

\* m_readPos += n, in std::size_t
Advance(p, n) ==
  [p EXCEPT !.m_readPos = ToNat(Add(ToDigits(@, sizeW), n))]

\* faulty variant: the n bytes at &m_data[0]
ReadBytesFromStart(p, n) == SubSeq(p.m_data, 1, n)

\* the n bytes at &m_data[m_readPos]
ReadBytes(p, n) == SubSeq(p.m_data, p.m_readPos + 1, p.m_readPos + n)

(***************************************************************************)
(* Insertion, operator<<.  A scalar value is the digit sequence of its bit *)
(* pattern (a BOOLEAN for bool, the object bytes for float and double); a  *)
(* narrow string is its sequence of chars, a wide string its sequence of   *)
(* code units, each a 4-digit integer after static_cast<std::uint32_t>.    *)
(***************************************************************************)
\* faulty variant: least significant byte first
ShiftByteReversed(T, data, k) == ShiftRight(IsSigned(T), data, 7 - k)[1]

\* (data >> 8*k) & 0xFF, as a std::uint8_t
ShiftByte(T, data, k) == ShiftRight(IsSigned(T), data, k)[1]

InsertScalar(p, T, data) ==
  CASE T = "bool"                 -> append(p, <<IF data THEN 1 ELSE 0>>)
    [] T \in {"int8", "uint8"}    -> append(p, ObjectBytes(data))
    [] T \in {"int16", "uint16"}  -> append(p, ObjectBytes(htons(data)))
    [] T \in {"int32", "uint32"}  -> append(p, ObjectBytes(htonl(data)))
    [] T \in {"int64", "uint64"}  ->
         append(p, <<ShiftByte(T, data, 7), ShiftByte(T, data, 6),
                     ShiftByte(T, data, 5), ShiftByte(T, data, 4),
                     ShiftByte(T, data, 3), ShiftByte(T, data, 2),
                     ShiftByte(T, data, 1), ShiftByte(T, data, 0)>>)
    [] T \in FloatTypes           -> append(p, data)

\* *this << static_cast<std::uint32_t>(c) for each code unit c
RECURSIVE InsertUnits(_, _)
InsertUnits(p, units) ==
  IF units = <<>> THEN p
  ELSE InsertUnits(InsertScalar(p, "uint32", Head(units)), Tail(units))

\* static_cast<std::uint32_t>(data.size()), then the characters
InsertString(p, T, data) ==
  LET length == ToDigits(Len(data), 4)
      q      == InsertScalar(p, "uint32", length)
  IN  CASE T = "cstring"   -> append(q, data)
        [] T = "string"    -> IF Len(data) > 0 THEN append(q, data) ELSE q
        [] T = "wcstring"  -> InsertUnits(q, data)
        [] T \in {"wstring", "u32string"} ->
             IF Len(data) > 0 THEN InsertUnits(q, data) ELSE q

(***************************************************************************)
(* Extraction, operator>>.  Each returns the packet and the caller's       *)
(* variable as the call leaves them.                                       *)
(***************************************************************************)
\* the integer and floating-point overloads
ExtractNumber(p, T, data) ==
  LET q == checkSize(p, ToDigits(SizeOf(T), sizeW))
  IN  IF q.m_isValid
      THEN LET b == ReadBytes(q, SizeOf(T))
               v == CASE T \in {"int8", "uint8"}   -> ObjectValue(b)
                      [] T \in {"int16", "uint16"} -> ntohs(ObjectValue(b))
                      [] T \in {"int32", "uint32"} -> ntohl(ObjectValue(b))
                      [] T \in {"int64", "uint64"} ->
                           ToInteger(<<b[8], b[7], b[6], b[5],
                                       b[4], b[3], b[2], b[1]>>)
                      [] T \in FloatTypes          -> b
           IN  [p    |-> Advance(q, ToDigits(SizeOf(T), sizeW)),
                data |-> v]
      ELSE [p |-> q, data |-> data]

\* faulty variant: data = (value != 0) whether or not the read succeeded
ExtractBoolAlwaysWrites(p, data) ==
  LET r == ExtractNumber(p, "uint8", <<0>>)
  IN  [p |-> r.p, data |-> r.data # <<0>>]

\* operator>>(bool&): std::uint8_t value = 0; if (*this >> value) ...
ExtractBool(p, data) ==
  LET r == ExtractNumber(p, "uint8", <<0>>)
  IN  [p |-> r.p, data |-> IF r.p.m_isValid THEN r.data # <<0>> ELSE data]

ExtractScalar(p, T, data) ==
  IF T = "bool" THEN ExtractBool(p, data) ELSE ExtractNumber(p, T, data)

\* for (i = 0; i < length; ++i) { character = 0; *this >> character;
\*                                data += character; }
RECURSIVE ExtractUnits(_, _, _)
ExtractUnits(p, n, data) ==
  IF n = 0 THEN [p |-> p, data |-> data]
  ELSE LET r == ExtractNumber(p, "uint32", Zeros(4))
       IN  ExtractUnits(r.p, n - 1, Append(data, r.data))

\* a string extraction that puts the read cursor back before the length
\* when the characters are not there
ExtractStringRewinds(p, T, data) ==
  LET r       == ExtractNumber(p, "uint32", Zeros(4))
      length  == r.data
      cleared == IF T \in {"string", "wstring", "u32string"} THEN <<>>
                 ELSE data
      size    == IF T \in {"cstring", "string"} THEN Convert(length, sizeW)
                 ELSE Mul(Convert(length, sizeW), 4)
  IN  IF IsZero(length) THEN [p |-> r.p, data |-> cleared]
      ELSE LET q == checkSize(r.p, size)
           IN  IF ~q.m_isValid
               THEN [p |-> [q EXCEPT !.m_readPos = p.m_readPos],
                     data |-> cleared]
               ELSE IF T \in {"cstring", "string"}
               THEN [p    |-> Advance(q, size),
                     data |-> ReadBytes(q, ToNat(length))]
               ELSE ExtractUnits(q, ToNat(length), <<>>)

\* the string overloads; data.clear() is what std::string, std::wstring and
\* std::u32string do before the length is looked at, the char* and wchar_t*
\* overloads write only what they extract
ExtractString(p, T, data) ==
  LET r       == ExtractNumber(p, "uint32", Zeros(4))
      length  == r.data
      cleared == IF T \in {"string", "wstring", "u32string"} THEN <<>>
                 ELSE data
      size    == IF T \in {"cstring", "string"} THEN Convert(length, sizeW)
                 ELSE Mul(Convert(length, sizeW), 4)
  IN  IF IsZero(length) THEN [p |-> r.p, data |-> cleared]
      ELSE LET q == checkSize(r.p, size)
           IN  IF ~q.m_isValid THEN [p |-> q, data |-> cleared]
               ELSE IF T \in {"cstring", "string"}
               THEN [p    |-> Advance(q, size),
                     data |-> ReadBytes(q, ToNat(length))]
               ELSE ExtractUnits(q, ToNat(length), <<>>)

Extract(p, T, data) ==
  IF T \in StringTypes THEN ExtractString(p, T, data)
  ELSE ExtractScalar(p, T, data)

Insert(p, T, data) ==
  IF T \in StringTypes THEN InsertString(p, T, data)
  ELSE InsertScalar(p, T, data)

\* Packet::onSend and Packet::onReceive, the default implementations
onSend(p) == [data |-> getData(p), size |-> getDataSize(p)]

onReceive(p, data) == append(p, data)

(***************************************************************************)
(* The builds: the host byte order and the width of std::size_t.           *)
(***************************************************************************)
HostOrders == {"little", "big"}
SizeWidths == {4, 8}

NoOp == [op |-> "none", T |-> "none", old |-> <<>>, valid |-> TRUE]

\* what was done last, with what, and whether the packet was valid before
Op(name, T, old) ==
  [op |-> name, T |-> T, old |-> old, valid |-> packet.m_isValid]

\* faulty variant: sizeReceived has no initialiser
NewPendingPacketStale == [size |-> <<0, 0, 0, 0>>, sizeReceived |-> 1,
                          data |-> <<>>]

\* TcpSocket::PendingPacket as its default member initialisers leave it; size
\* is the 4 bytes of the std::uint32_t object
NewPendingPacket == [size |-> <<0, 0, 0, 0>>, sizeReceived |-> 0,
                     data |-> <<>>]

\* a TcpSocket after construction
NewTcpSocket == [m_pendingPacket |-> NewPendingPacket,
                 m_blockToSendBuffer |-> <<>>]

\* a TcpSocket and a transport that are not part of the running specification
TcpIdle == NewTcpSocket
NetIdle == <<>>
\* no Socket object, no OS socket and no selector take part
SocketsIdle == <<>>
OsIdle == <<>>
SelectorIdle == <<>>

(***************************************************************************)
(* Spec: one Packet under any sequence of insertions, extractions, raw     *)
(* appends and clear().                                                    *)
(***************************************************************************)
\* the values the caller inserts
InsertValues(T) ==
  CASE T = "uint32"    -> {<<1, 0, 0, 0>>, <<255, 255, 255, 255>>}
    [] T = "int64"     -> {<<1, 2, 3, 4, 5, 6, 7, 128>>}
    [] T = "string"    -> {<<97>>}
    [] OTHER           -> {}

\* what the caller's variable holds before an extraction
OldValue(T) ==
  CASE T = "bool"         -> TRUE
    [] T \in {"cstring", "string"} -> <<66>>
    [] T \in StringTypes  -> << <<66, 0, 0, 0>> >>
    [] OTHER              -> [i \in 1..SizeOf(T) |-> 7]

PacketInit ==
  /\ packet = NewPacket
  /\ out = <<>>
  /\ lastOp = NoOp
  /\ sockets = SocketsIdle /\ os = OsIdle /\ selector = SelectorIdle

InsertOp ==
  \E T \in ScalarTypes \cup StringTypes : \E v \in InsertValues(T) :
    LET q == Insert(packet, T, v)
    IN  /\ Len(q.m_data) <= MaxData
        /\ packet' = q
        /\ lastOp' = Op("insert", T, v)
        /\ out' = <<>>
        /\ UNCHANGED <<host, sizeW, pc, input, tcp, net, sockets, os, selector>>

AppendOp ==
  \E bytes \in {<<>>, <<0, 1>>} :
    /\ Len(packet.m_data) + Len(bytes) <= MaxData
    /\ packet' = append(packet, bytes)
    /\ lastOp' = Op("append", "none", bytes)
    /\ out' = <<>>
    /\ UNCHANGED <<host, sizeW, pc, input, tcp, net, sockets, os, selector>>

ExtractOp ==
  \E T \in ScalarTypes \cup StringTypes :
    LET r == Extract(packet, T, OldValue(T))
    IN  /\ packet' = r.p
        /\ out' = r.data
        /\ lastOp' = Op("extract", T, OldValue(T))
        /\ UNCHANGED <<host, sizeW, pc, input, tcp, net, sockets, os, selector>>

ClearOp ==
  /\ packet' = clear(packet)
  /\ lastOp' = Op("clear", "none", <<>>)
  /\ out' = <<>>
  /\ UNCHANGED <<host, sizeW, pc, input, tcp, net, sockets, os, selector>>

Init ==
  /\ PacketInit
  /\ host \in HostOrders
  /\ sizeW \in SizeWidths
  /\ pc = "packet"
  /\ input = <<>>
  /\ tcp = TcpIdle
  /\ net = NetIdle

Next == InsertOp \/ AppendOp \/ ExtractOp \/ ClearOp

Spec == Init /\ [][Next]_vars

(***************************************************************************)
(* Properties of Spec.                                                     *)
(***************************************************************************)
\* the bytes between the read cursor and the end of the buffer
Unread(p) == Len(p.m_data) - p.m_readPos

\* C1: once an extraction has failed the packet stays invalid until clear(),
\* and every later extraction, of a scalar or of a string, leaves the
\* caller's variable as it was.
C1_InvalidIsStickyAndOutputsUntouched ==
  ~lastOp.valid =>
    /\ lastOp.op # "clear" => ~packet.m_isValid
    /\ lastOp.op = "extract" => out = lastOp.old

\* C7: a scalar of n bytes extracted where fewer than n bytes are unread makes
\* the packet invalid and leaves the caller's variable and the read position
\* as they were.
C7_ShortScalarReadFails ==
  [][ ( /\ lastOp'.op = "extract"
        /\ lastOp'.T \in ScalarTypes
        /\ Unread(packet) < SizeOf(lastOp'.T) ) =>
      ( /\ ~packet'.m_isValid
        /\ out' = lastOp'.old
        /\ packet'.m_readPos = packet.m_readPos
        /\ packet'.m_data = packet.m_data ) ]_vars

\* a 32-bit integer was extracted from an empty, valid packet
C7_Witness ==
  /\ lastOp.op = "extract" /\ lastOp.T = "int32" /\ lastOp.valid
  /\ packet.m_data = <<>>
  /\ ~packet.m_isValid
  /\ out = lastOp.old

\* the characters or code units a string extraction delivered
Delivered(T, old, data) ==
  IF T \in {"cstring", "wcstring"} /\ data = old THEN 0 ELSE Len(data)

\* the bytes an extraction of type T consumed, given what it delivered
Consumed(T, old, data) ==
  CASE T \in ScalarTypes           -> SizeOf(T)
    [] T \in {"cstring", "string"} -> 4 + Delivered(T, old, data)
    [] OTHER                       -> 4 + 4 * Delivered(T, old, data)

\* C8: the read cursor never exceeds the buffer size and only clear() moves
\* it back; an extraction that consumes n bytes succeeds only on a valid
\* packet with readPos + n <= size (in unbounded arithmetic, so without
\* wrap-around), and then the cursor has advanced by exactly n.
C8_CursorStaysInBuffer ==
  /\ packet.m_readPos <= Len(packet.m_data)
  /\ [][ /\ packet'.m_readPos <= Len(packet'.m_data)
         /\ lastOp'.op # "clear" => packet'.m_readPos >= packet.m_readPos
         /\ (lastOp'.op = "extract" /\ packet'.m_isValid) =>
              LET n == Consumed(lastOp'.T, lastOp'.old, out')
              IN  /\ packet.m_isValid
                  /\ packet.m_readPos + n <= Len(packet.m_data)
                  /\ packet'.m_readPos = packet.m_readPos + n ]_vars

\* a second 32-bit integer was extracted, up to the end of the buffer
C8_Witness ==
  /\ lastOp.op = "extract" /\ lastOp.T = "uint32"
  /\ packet.m_isValid
  /\ packet.m_readPos = 8
  /\ Len(packet.m_data) = 8

(***************************************************************************)
(* SpecCodec: a value is inserted into a packet whose earlier content, if  *)
(* any, has been read, and is then extracted as the same type.             *)
(***************************************************************************)
MaxStr == 2

CodecTypes == ScalarTypes \cup {"string", "wstring", "u32string"}

SampleBytes == {0, 1, 128, 255}

SampleUnits == {<<97, 0, 0, 0>>, <<0, 1, 0, 128>>, <<255, 255, 255, 255>>}

SeqsUpTo(S, n) == UNION {[1..k -> S] : k \in 0..n}

\* the values the round trip is tried on: bit patterns for the integers,
\* object bytes for float and double
CodecValues(T) ==
  CASE T = "bool"                       -> BOOLEAN
    [] T \in ScalarTypes /\ SizeOf(T) = 8 ->
         [1..8 -> {0, 255}]
           \cup {<<1, 2, 3, 4, 5, 6, 7, 8>>, <<8, 7, 6, 5, 4, 3, 2, 129>>,
                 <<0, 0, 0, 0, 0, 0, 0, 128>>, <<255, 255, 255, 255, 255, 255, 255, 127>>}
    [] T \in ScalarTypes                -> [1..SizeOf(T) -> SampleBytes]
    [] T = "string"                     -> SeqsUpTo({0, 97, 255}, MaxStr)
    [] T \in {"wstring", "u32string"}   -> SeqsUpTo(SampleUnits, MaxStr)

\* a packet whose content has been read to the end
ReadPackets ==
  {NewPacket,
   [m_data |-> <<0, 0, 0, 9>>, m_readPos |-> 4, m_sendPos |-> 0,
    m_isValid |-> TRUE]}

CodecInit ==
  /\ host \in HostOrders
  /\ sizeW \in SizeWidths
  /\ \E T \in CodecTypes : \E v \in CodecValues(T) :
     \E p \in ReadPackets :
       /\ input = [T |-> T, v |-> v, start |-> Len(p.m_data)]
       /\ packet = p
  /\ out = <<>>
  /\ lastOp = NoOp
  /\ sockets = SocketsIdle /\ os = OsIdle /\ selector = SelectorIdle
  /\ pc = "insert"
  /\ tcp = TcpIdle
  /\ net = NetIdle

CodecInsert ==
  /\ pc = "insert"
  /\ packet' = Insert(packet, input.T, input.v)
  /\ lastOp' = Op("insert", input.T, input.v)
  /\ pc' = "extract"
  /\ UNCHANGED <<out, host, sizeW, input, tcp, net, sockets, os, selector>>

CodecExtract ==
  /\ pc = "extract"
  /\ LET r == Extract(packet, input.T, OldValue(input.T))
     IN  /\ packet' = r.p
         /\ out' = r.data
  /\ lastOp' = Op("extract", input.T, OldValue(input.T))
  /\ pc' = "done"
  /\ UNCHANGED <<host, sizeW, input, tcp, net, sockets, os, selector>>

CodecNext == CodecInsert \/ CodecExtract

SpecCodec == CodecInit /\ [][CodecNext]_vars

(***************************************************************************)
(* Properties of SpecCodec.                                                *)
(***************************************************************************)
\* the big-endian representation of an integer: most significant byte first
BigEndian(v) == [i \in 1..Len(v) |-> v[Len(v) + 1 - i]]

\* the bytes the insertion appended
Written == SubSeq(packet.m_data, input.start + 1, Len(packet.m_data))

RECURSIVE BigEndianUnits(_)
BigEndianUnits(units) ==
  IF units = <<>> THEN <<>>
  ELSE BigEndian(Head(units)) \o BigEndianUnits(Tail(units))

\* C6: a bool or an integer of any supported width inserted into an empty
\* packet and extracted as the same type comes back unchanged, the packet is
\* valid and the read cursor is at the end of the buffer.
C6_ScalarRoundTrip ==
  ( /\ pc = "done"
    /\ input.T \in {"bool"} \cup IntTypes
    /\ input.start = 0 ) =>
  ( /\ out = input.v
    /\ packet.m_isValid
    /\ packet.m_readPos = Len(packet.m_data)
    /\ Len(packet.m_data) = SizeOf(input.T) )

\* a negative 16-bit integer went through an empty packet on a little-endian
\* host
C6_Witness ==
  /\ pc = "done" /\ input.T = "int16" /\ input.start = 0
  /\ input.v = <<1, 128>>
  /\ host = "little"
  /\ out = input.v

\* C9: a 16-, 32- or 64-bit integer is appended as exactly sizeof bytes, the
\* most significant first, on either host byte order, and is decoded back to
\* the same bit pattern; this includes the shift/OR conversion of the 64-bit
\* types on negative values.
C9_BigEndianOnTheWire ==
  ( /\ input.T \in IntTypes
    /\ SizeOf(input.T) >= 2 ) =>
  ( /\ pc \in {"extract", "done"} => Written = BigEndian(input.v)
    /\ pc = "done" => out = input.v )

\* a negative std::int64_t with eight different bytes was written and read
C9_Witness ==
  /\ pc = "done" /\ input.T = "int64"
  /\ input.v = <<8, 7, 6, 5, 4, 3, 2, 129>>
  /\ Written = <<129, 2, 3, 4, 5, 6, 7, 8>>
  /\ out = input.v

\* C10: a std::string is appended as its 4-byte big-endian length and its
\* bytes, a wide or UTF-32 string as its 4-byte big-endian length and one
\* 4-byte big-endian value per code unit; extracted where it was inserted it
\* comes back unchanged, the empty string included, the packet stays valid
\* and the read cursor has advanced over the whole encoding.
C10_StringRoundTrip ==
  input.T \in {"string", "wstring", "u32string"} =>
    LET count == BigEndian(ToDigits(Len(input.v), 4))
        body  == IF input.T = "string" THEN input.v
                 ELSE BigEndianUnits(input.v)
        n     == IF input.T = "string" THEN 4 + Len(input.v)
                 ELSE 4 + 4 * Len(input.v)
    IN  /\ pc \in {"extract", "done"} => Written = count \o body
        /\ pc = "done" =>
             /\ out = input.v
             /\ packet.m_isValid
             /\ packet.m_readPos = input.start + n

\* a std::string of two chars went through a packet that already held data
C10_Witness ==
  /\ pc = "done" /\ input.T = "string" /\ input.start = 4
  /\ input.v = <<97, 0>>
  /\ out = input.v
  /\ packet.m_readPos = 10

(***************************************************************************)
(* TcpSocket::send(Packet&).  The transport takes `accepted` bytes of what *)
(* one call offers it; `fail` is the OS failure that ends the call, if any.*)
(***************************************************************************)
MaxPayload == 2

Min(a, b) == IF a <= b THEN a ELSE b

\* the frame of a payload: its length as 4 bytes and the payload
FrameBlock(p) ==
  LET s          == onSend(p)
      packetSize == htonl(Convert(ToDigits(s.size, sizeW), 4))
  IN  ObjectBytes(packetSize) \o SubSeq(s.data, 1, s.size)

\* TcpSocket::send(const void*, std::size_t, std::size_t&): the status and
\* the number of bytes the transport took
RawSend(size, accepted, fail) ==
  IF fail # "none" THEN [status |-> fail, sent |-> accepted]
  ELSE IF accepted = size THEN [status |-> "Done", sent |-> accepted]
  ELSE IF accepted > 0 THEN [status |-> "Partial", sent |-> accepted]
  ELSE [status |-> "NotReady", sent |-> 0]

\* one call of TcpSocket::send(Packet&): the socket, the packet, the status
\* and the bytes handed to the transport
SendPacket(sock, p, accepted, fail) ==
  LET block == FrameBlock(p)
      size  == Len(block) - p.m_sendPos
      r     == RawSend(size, accepted, fail)
      q     == CASE r.status = "Partial" ->
                      [p EXCEPT !.m_sendPos = @ + r.sent]
                 [] r.status = "Done"    -> [p EXCEPT !.m_sendPos = 0]
                 [] OTHER                -> p
  IN  [sock   |-> [sock EXCEPT !.m_blockToSendBuffer = block],
       p      |-> q,
       status |-> r.status,
       bytes  |-> SubSeq(block, p.m_sendPos + 1, p.m_sendPos + r.sent)]

(***************************************************************************)
(* SpecSend: one packet is sent on a non-blocking TcpSocket; the caller    *)
(* calls send(Packet&) again with the same packet until it returns Done.   *)
(***************************************************************************)
Payloads == UNION {[1..k -> {1, 201}] : k \in 0..MaxPayload}

SendInit ==
  /\ host \in HostOrders
  /\ sizeW \in SizeWidths
  /\ input \in Payloads
  /\ packet = append(NewPacket, input)
  /\ out = <<>>
  /\ lastOp = NoOp
  /\ sockets = SocketsIdle /\ os = OsIdle /\ selector = SelectorIdle
  /\ pc = "send"
  /\ tcp = NewTcpSocket
  /\ net = [wire |-> <<>>, status |-> "none", partials |-> 0]

\* a call that the transport does not fail
SendCall ==
  /\ pc = "send"
  /\ \E accepted \in 0..(Len(FrameBlock(packet)) - packet.m_sendPos) :
       LET r == SendPacket(tcp, packet, accepted, "none")
       IN  /\ tcp' = r.sock
           /\ packet' = r.p
           /\ net' = [wire     |-> net.wire \o r.bytes,
                      status   |-> r.status,
                      partials |-> net.partials
                                     + IF r.status = "Partial" THEN 1 ELSE 0]
           /\ pc' = IF r.status = "Done" THEN "done" ELSE "send"
  /\ UNCHANGED <<out, lastOp, host, sizeW, input, sockets, os, selector>>

\* a call that ends in Error or Disconnected, after the transport took some
\* of the bytes
SendFails ==
  /\ pc = "send"
  /\ \E fail \in {"Error", "Disconnected"} :
     \E accepted \in 0..(Len(FrameBlock(packet)) - packet.m_sendPos - 1) :
       LET r == SendPacket(tcp, packet, accepted, fail)
       IN  /\ tcp' = r.sock
           /\ packet' = r.p
           /\ net' = [net EXCEPT !.wire = @ \o r.bytes, !.status = r.status]
           /\ pc' = "failed"
  /\ UNCHANGED <<out, lastOp, host, sizeW, input, sockets, os, selector>>

SendNext == SendCall \/ SendFails

SpecSend == SendInit /\ [][SendNext]_vars

\* the frame a payload has on the wire
WireFrame(payload) == BigEndian(ToDigits(Len(payload), 4)) \o payload

IsPrefix(a, b) == Len(a) <= Len(b) /\ a = SubSeq(b, 1, Len(a))

\* C2: whatever part of the offered bytes the transport takes in each call,
\* the bytes handed to it over the calls are at every moment the first bytes
\* of [4-byte big-endian length][payload], and when send returns Done they
\* are exactly that frame: no byte twice, none skipped.
C2_ResumedSendIsExact ==
  /\ pc \in {"send", "done"} => IsPrefix(net.wire, WireFrame(input))
  /\ pc = "send" => Len(net.wire) = packet.m_sendPos
  /\ pc = "done" => net.wire = WireFrame(input)

\* a packet went out in three or more calls
C2_Witness ==
  /\ pc = "done"
  /\ net.partials >= 2
  /\ Len(input) = 2
  /\ net.wire = WireFrame(input)

(***************************************************************************)
(* TcpSocket::receive(Packet&) on a non-blocking socket.  `avail` are the  *)
(* bytes that have arrived and are unread, `closed` says the peer has      *)
(* closed the connection, and `failAt` is the number of the raw receive of *)
(* this call at which the OS reports an error (0: none does).              *)
(***************************************************************************)
\* TcpSocket::receive(void*, std::size_t, std::size_t&): the status and the
\* number of bytes received
RawReceive(avail, closed, size, fail) ==
  IF fail THEN [status |-> "Error", received |-> 0]
  ELSE IF Len(avail) > 0
       THEN [status |-> "Done", received |-> Min(size, Len(avail))]
  ELSE IF closed THEN [status |-> "Disconnected", received |-> 0]
  ELSE [status |-> "NotReady", received |-> 0]

\* the size asked of a raw receive of payload: what the payload still lacks,
\* and no more than `most`; declared is the std::uint32_t packet size
SizeToGet(declared, have, most) ==
  IF LessEq(ToDigits(have + most, 8), Convert(declared, 8)) THEN most
  ELSE ToNat(declared) - have

\* faulty variant: the pending packet is dropped on NotReady as well
PendingDroppedAlways(pending, status) == NewPendingPacket

\* what a call that ends without a packet leaves of the pending packet
PendingAfter(pending, status) ==
  IF status \in {"Disconnected", "Error"} THEN NewPendingPacket ELSE pending

\* the call from its n-th raw receive on: the status, the pending packet,
\* the destination packet and the unread bytes as it leaves them
RECURSIVE ReceiveSteps(_, _, _, _, _, _)
ReceiveSteps(pending, p, avail, closed, failAt, n) ==
  IF pending.sizeReceived < 4
  THEN \* (1) the length prefix is incomplete: read what is missing of it
       LET r == RawReceive(avail, closed, 4 - pending.sizeReceived,
                           failAt = n)
           g == r.received
       IN  IF r.status # "Done"
           THEN [status  |-> r.status,
                 pending |-> PendingAfter(pending, r.status),
                 p       |-> p,
                 avail   |-> avail]
           ELSE ReceiveSteps(
                  [pending EXCEPT
                     !.size = SubSeq(@, 1, pending.sizeReceived)
                                \o SubSeq(avail, 1, g)
                                \o SubSeq(@, pending.sizeReceived + g + 1, 4),
                     !.sizeReceived = @ + g],
                  p, SubSeq(avail, g + 1, Len(avail)), closed, failAt, n + 1)
  ELSE LET packetSize == ntohl(ObjectValue(pending.size))
           have       == Len(pending.data)
       IN  IF Less(ToDigits(have, 8), Convert(packetSize, 8))
           THEN \* (2) read the rest of the payload into the accumulation buffer
                LET r == RawReceive(avail, closed,
                                    SizeToGet(packetSize, have, Len(avail) + 1),
                                    failAt = n)
                    g == r.received
                IN  IF r.status # "Done"
                    THEN [status  |-> r.status,
                          pending |-> PendingAfter(pending, r.status),
                          p       |-> p,
                          avail   |-> avail]
                    ELSE ReceiveSteps(
                           [pending EXCEPT !.data = @ \o SubSeq(avail, 1, g)],
                           p, SubSeq(avail, g + 1, Len(avail)), closed,
                           failAt, n + 1)
           ELSE \* (3) the payload is complete: clear and fill the packet
                [status  |-> "Done",
                 pending |-> NewPendingPacket,
                 p       |-> IF have > 0
                             THEN onReceive(clear(p), pending.data)
                             ELSE clear(p),
                 avail   |-> avail]

\* one call of TcpSocket::receive(Packet&)
ReceivePacket(sock, p, avail, closed, failAt) ==
  LET r == ReceiveSteps(sock.m_pendingPacket, p, avail, closed, failAt, 1)
  IN  [sock   |-> [sock EXCEPT !.m_pendingPacket = r.pending],
       p      |-> r.p,
       status |-> r.status,
       avail  |-> r.avail]

(***************************************************************************)
(* SpecRecv: the peer sends two frames; the bytes arrive in any split, the *)
(* peer may close the connection at any moment and any raw receive may     *)
(* fail.  The caller calls receive(Packet&) again and again with a packet  *)
(* that holds stale content.                                               *)
(***************************************************************************)
\* n different bytes, none of which occurs in a length prefix
Payload(first, n) == [i \in 1..n |-> first + i]

\* a packet in which an earlier extraction failed
StalePacket == [m_data |-> <<9>>, m_readPos |-> 1, m_sendPos |-> 0,
                m_isValid |-> FALSE]

\* the stream bytes the calls of receive have consumed so far
Taken == Len(input.all) - Len(net.stream) - Len(net.avail)

RecvInit ==
  /\ host \in HostOrders
  /\ sizeW \in SizeWidths
  /\ \E l1 \in 0..MaxPayload : \E l2 \in 0..MaxPayload :
       LET p1 == Payload(200, l1)
           p2 == Payload(100, l2)
       IN  /\ input = [all      |-> WireFrame(p1) \o WireFrame(p2),
                       payloads |-> <<p1, p2>>]
           /\ net = [stream |-> WireFrame(p1) \o WireFrame(p2),
                     avail |-> <<>>, closed |-> FALSE, status |-> "none",
                     mark |-> 0, dropped |-> 0, lost |-> 0, done |-> 0,
                     pieces |-> 0, failed |-> FALSE]
  /\ packet = StalePacket
  /\ out = <<>>
  /\ lastOp = NoOp
  /\ sockets = SocketsIdle /\ os = OsIdle /\ selector = SelectorIdle
  /\ pc = "receive"
  /\ tcp = NewTcpSocket

\* k more bytes of the stream arrive
Deliver ==
  /\ ~net.closed
  /\ \E k \in 1..Len(net.stream) :
       net' = [net EXCEPT !.avail = @ \o SubSeq(net.stream, 1, k),
                          !.stream = SubSeq(@, k + 1, Len(@))]
  /\ UNCHANGED <<packet, out, lastOp, host, sizeW, pc, input, tcp, sockets, os, selector>>

\* the peer closes the connection; what has not arrived never will
PeerCloses ==
  /\ ~net.closed
  /\ net' = [net EXCEPT !.closed = TRUE]
  /\ UNCHANGED <<packet, out, lastOp, host, sizeW, pc, input, tcp, sockets, os, selector>>

\* the bookkeeping of one call: mark is where the frame in progress began,
\* dropped where the last failed call left the stream, lost how many bytes
\* that call had accumulated, done the number of packets delivered, pieces
\* the number of calls that took bytes of the frame last worked on, failed
\* whether the OS has reported an error to some call
Returned(r) ==
  LET taken   == Len(input.all) - Len(net.stream) - Len(r.avail)
      failed  == r.status \in {"Disconnected", "Error"}
  IN  [net EXCEPT !.avail   = r.avail,
                  !.status  = r.status,
                  !.mark    = IF failed \/ r.status = "Done" THEN taken ELSE @,
                  !.dropped = IF failed /\ taken > net.mark THEN taken ELSE @,
                  !.lost    = IF failed THEN taken - net.mark ELSE @,
                  !.done    = IF r.status = "Done" THEN @ + 1 ELSE @,
                  !.pieces  = IF taken = Taken THEN @
                              ELSE IF net.mark = Taken THEN 1 ELSE @ + 1]

\* a call in which no raw receive fails
ReceiveCall ==
  /\ LET r == ReceivePacket(tcp, packet, net.avail, net.closed, 0)
     IN  /\ tcp' = r.sock
         /\ packet' = r.p
         /\ net' = Returned(r)
  /\ UNCHANGED <<out, lastOp, host, sizeW, pc, input, sockets, os, selector>>

\* a call whose failAt-th raw receive fails; the OS reports one error at most
ReceiveError ==
  /\ ~net.failed
  /\ \E failAt \in 1..3 :
       LET r == ReceivePacket(tcp, packet, net.avail, net.closed, failAt)
       IN  /\ r.status = "Error"
           /\ tcp' = r.sock
           /\ packet' = r.p
           /\ net' = [Returned(r) EXCEPT !.failed = TRUE]
  /\ UNCHANGED <<out, lastOp, host, sizeW, pc, input, sockets, os, selector>>

RecvNext == Deliver \/ PeerCloses \/ ReceiveCall \/ ReceiveError

SpecRecv == RecvInit /\ [][RecvNext]_vars

(***************************************************************************)
(* Properties of SpecRecv.                                                 *)
(***************************************************************************)
\* the packet a single call makes of a frame that has arrived as a whole
OneShot(payload) ==
  ReceivePacket(NewTcpSocket, StalePacket, WireFrame(payload), FALSE, 0).p

\* where in the stream the k-th frame ends
FrameEnd(k) ==
  IF k = 1 THEN 4 + Len(input.payloads[1])
  ELSE 8 + Len(input.payloads[1]) + Len(input.payloads[2])

\* the pending packet holds nothing
PendingIsEmpty ==
  /\ tcp.m_pendingPacket.sizeReceived = 0
  /\ tcp.m_pendingPacket.data = <<>>
  /\ tcp.m_pendingPacket.size = <<0, 0, 0, 0>>

\* the step is a call of receive(Packet&), not an arrival or a close
IsCall == net'.stream = net.stream /\ net'.closed = net.closed

\* every Done reached without a failed call leaves the one-shot packet
DoneIsOneShot ==
  (net.status = "Done" /\ ~net.failed) =>
     packet = OneShot(input.payloads[net.done])

\* a call made when all bytes of the next frame have arrived returns Done
WholeFrameIsDone ==
  ( /\ IsCall
    /\ ~net'.failed
    /\ net.done < 2
    /\ Taken + Len(net.avail) >= FrameEnd(net.done + 1) ) =>
  ( /\ net'.status = "Done"
    /\ net'.done = net.done + 1 )

\* C3: while no call has failed, a call made when all bytes of the next frame
\* have arrived returns Done, in however many pieces the earlier calls took
\* the frame, and every Done leaves the packet that a single call makes of the
\* same frame arriving as a whole.
C3_PiecewiseEqualsOneShot ==
  []DoneIsOneShot /\ [][WholeFrameIsDone]_vars

\* the first frame, of two payload bytes, was taken one byte per call
C3_Witness ==
  /\ net.status = "Done" /\ net.done = 1 /\ ~net.failed
  /\ Len(input.payloads[1]) = 2
  /\ net.pieces = 6
  /\ packet.m_data = input.payloads[1]

\* C4: payload bytes are accumulated only once the 4 prefix bytes are in; the
\* prefix and payload bytes accumulated are, after every call, exactly the
\* stream bytes taken since the frame began; and Done is returned only with
\* the destination packet holding the payload whose length the 4 bytes
\* before it declare, and the pending packet empty.
C4_AccumulateThenDeliver ==
  LET pending == tcp.m_pendingPacket
      n       == Len(packet.m_data)
  IN  /\ Len(pending.data) > 0 => pending.sizeReceived = 4
      /\ SubSeq(pending.size, 1, pending.sizeReceived) \o pending.data
           = SubSeq(input.all, net.mark + 1, Taken)
      /\ net.status = "Done" =>
           /\ Taken >= n + 4
           /\ SubSeq(input.all, Taken - n - 3, Taken - n)
                = BigEndian(ToDigits(n, 4))
           /\ packet.m_data = SubSeq(input.all, Taken - n + 1, Taken)
           /\ packet.m_readPos = 0
           /\ packet.m_isValid
           /\ PendingIsEmpty

\* the second frame was delivered after its payload had been held back
C4_Witness ==
  /\ net.status = "Done" /\ net.done = 2 /\ ~net.failed
  /\ net.pieces >= 3
  /\ packet.m_data = <<101, 102>>
  /\ PendingIsEmpty

\* C5: a call that returns Disconnected or Error leaves the pending packet
\* empty, and no packet delivered later holds a byte that was taken before
\* that call returned.
C5_FailureDiscardsTheFrame ==
  /\ net.status \in {"Disconnected", "Error"} => PendingIsEmpty
  /\ net.status = "Done" =>
       LET n == Len(packet.m_data)
       IN  /\ Taken - n - 4 >= net.dropped
           /\ packet.m_data = SubSeq(input.all, Taken - n + 1, Taken)

\* a call failed with the prefix and one of two payload bytes accumulated
C5_Witness ==
  /\ net.status = "Error"
  /\ net.lost = 5
  /\ net.dropped = 5
  /\ PendingIsEmpty

(***************************************************************************)
(* The OS under the sockets.  A handle is the index of its entry in        *)
(* os.handles, which records every socket the OS ever handed out: whether  *)
(* it is open, how often it was closed, its O_NONBLOCK flag, its options,  *)
(* the port it is bound to and whether it listens.  os.calls are the OS    *)
(* calls of the library operation that ran last, in order.  A world w is   *)
(* the pair [sockets, os] an operation works on.                           *)
(***************************************************************************)
\* descriptors the OS hands out before socket() and accept() fail
MaxHandles == 3

\* SocketImpl::invalidSocket()
invalidSocket == -1

NewOs == [handles |-> <<>>, calls |-> <<>>, wire |-> <<>>, null |-> FALSE]

NewHandle(type) ==
  [type |-> type, open |-> TRUE, closes |-> 0, nonblocking |-> FALSE,
   option |-> "none", bound |-> 0, listening |-> FALSE]

Called(o, name) == [o EXCEPT !.calls = Append(@, name)]

IsOpen(o, h) == h \in 1..Len(o.handles) /\ o.handles[h].open

\* socket(PF_INET, type, 0) and ::accept: a new handle unless the OS fails
OsAllocate(o, name, type, ok) ==
  IF ok /\ Len(o.handles) < MaxHandles
  THEN [os     |-> [Called(o, name) EXCEPT
                      !.handles = Append(@, NewHandle(type))],
        handle |-> Len(o.handles) + 1]
  ELSE [os |-> Called(o, name), handle |-> invalidSocket]

\* SocketImpl::close(sock): ::close / closesocket; the OS forgets the flags,
\* the options and the binding of the handle
ImplClose(o, h) ==
  IF h \in 1..Len(o.handles)
  THEN [Called(o, "close") EXCEPT
          !.handles[h] = [NewHandle(@.type) EXCEPT !.open = FALSE,
                                                   !.closes = o.handles[h].closes + 1]]
  ELSE Called(o, "close")

\* SocketImpl::setBlocking(sock, block): fcntl / ioctlsocket
ImplSetBlocking(o, h, block) ==
  IF IsOpen(o, h)
  THEN [Called(o, "fcntl") EXCEPT !.handles[h].nonblocking = ~block]
  ELSE Called(o, "fcntl")

\* setsockopt(sock, ..., TCP_NODELAY or SO_BROADCAST, ...)
OsSetOption(o, h, option) ==
  IF IsOpen(o, h)
  THEN [Called(o, "setsockopt") EXCEPT !.handles[h].option = option]
  ELSE Called(o, "setsockopt")

(***************************************************************************)
(* Socket, the base class.  sockets[i] is the object i: whether it is      *)
(* alive (constructed and not destroyed) and its members.                  *)
(***************************************************************************)
\* Socket::Socket(Type)
NewSocket(type) ==
  [alive |-> TRUE, m_type |-> type, m_socket |-> invalidSocket,
   m_isBlocking |-> TRUE]

getNativeHandle(w, i) == w.sockets[i].m_socket

isBlocking(w, i) == w.sockets[i].m_isBlocking

\* faulty variant: the flag is remembered and the handle is left as it is
setBlockingRemembers(w, i, blocking) ==
  [sockets |-> [w.sockets EXCEPT ![i].m_isBlocking = blocking],
   os      |-> w.os]

\* Socket::setBlocking
setBlocking(w, i, blocking) ==
  LET o == IF getNativeHandle(w, i) # invalidSocket
           THEN ImplSetBlocking(w.os, getNativeHandle(w, i), blocking)
           ELSE w.os
  IN  [sockets |-> [w.sockets EXCEPT ![i].m_isBlocking = blocking],
       os      |-> o]

\* faulty variant: the handle is closed and kept
closeKeepsHandle(w, i) ==
  IF getNativeHandle(w, i) # invalidSocket
  THEN [w EXCEPT !.os = ImplClose(@, getNativeHandle(w, i))]
  ELSE w

\* Socket::close
close(w, i) ==
  IF getNativeHandle(w, i) # invalidSocket
  THEN [sockets |-> [w.sockets EXCEPT ![i].m_socket = invalidSocket],
        os      |-> ImplClose(w.os, getNativeHandle(w, i))]
  ELSE w

\* faulty variant: a new handle is made blocking, whatever the flag
createFromBlocking(w, i, handle) ==
  IF getNativeHandle(w, i) = invalidSocket
  THEN setBlocking([w EXCEPT !.sockets[i].m_socket = handle], i, TRUE)
  ELSE w

\* Socket::create(SocketHandle)
createFrom(w, i, handle) ==
  IF getNativeHandle(w, i) = invalidSocket
  THEN LET w1 == [w EXCEPT !.sockets[i].m_socket = handle]
           w2 == setBlocking(w1, i, isBlocking(w1, i))
       IN  [w2 EXCEPT !.os = OsSetOption(@, handle,
                                IF w.sockets[i].m_type = "Tcp"
                                THEN "TCP_NODELAY" ELSE "SO_BROADCAST")]
  ELSE w

\* Socket::create(); ok says whether socket() succeeds
create(w, i, ok) ==
  IF getNativeHandle(w, i) = invalidSocket
  THEN LET r == OsAllocate(w.os, "socket",
                           IF w.sockets[i].m_type = "Tcp"
                           THEN "SOCK_STREAM" ELSE "SOCK_DGRAM", ok)
       IN  IF r.handle = invalidSocket THEN [w EXCEPT !.os = r.os]
           ELSE createFrom([w EXCEPT !.os = r.os], i, r.handle)
  ELSE w

\* Socket::~Socket
Destroy(w, i) == [close(w, i) EXCEPT !.sockets[i].alive = FALSE]

\* faulty variant: the handle is copied, not exchanged
MoveConstructCopies(w, i, j) ==
  [w EXCEPT !.sockets[i] = [w.sockets[j] EXCEPT !.alive = TRUE]]

\* Socket::Socket(Socket&&): the object i is constructed from the object j
MoveConstruct(w, i, j) ==
  [w EXCEPT !.sockets[i] = [w.sockets[j] EXCEPT !.alive = TRUE],
            !.sockets[j].m_socket = invalidSocket]

\* Socket::operator=(Socket&&): i = std::move(j)
MoveAssign(w, i, j) ==
  IF i # j
  THEN LET c == close(w, i)
       IN  [c EXCEPT !.sockets[i].m_type = c.sockets[j].m_type,
                     !.sockets[i].m_socket = c.sockets[j].m_socket,
                     !.sockets[i].m_isBlocking = c.sockets[j].m_isBlocking,
                     !.sockets[j].m_socket = invalidSocket]
  ELSE w

(***************************************************************************)
(* Addresses, error mapping and the calls on a bound or listening handle.  *)
(* An IpAddress is its four bytes a.b.c.d.                                 *)
(***************************************************************************)
AnyAddress == <<0, 0, 0, 0>>
LocalHost  == <<127, 0, 0, 1>>
Broadcast  == <<255, 255, 255, 255>>

\* SocketImpl::getErrorStatus, on Unix (errno) and on Windows (WSAGetLastError)
getErrorStatus(system, errno) ==
  CASE errno \in {"EWOULDBLOCK", "EAGAIN"}        -> "NotReady"
    [] errno \in {"EINPROGRESS"} /\ system = "unix"    -> "NotReady"
    [] errno \in {"EALREADY"} /\ system = "windows"    -> "NotReady"
    [] errno \in {"ECONNABORTED", "ECONNRESET", "ETIMEDOUT", "ENETRESET",
                  "ENOTCONN"}                     -> "Disconnected"
    [] errno = "EPIPE" /\ system = "unix"         -> "Disconnected"
    [] errno = "EISCONN" /\ system = "windows"    -> "Done"
    [] OTHER                                      -> "Error"

\* ::bind(handle, addr): the OS binds an open, unbound handle unless it fails
OsBind(o, h, port, ok) ==
  IF ok /\ IsOpen(o, h) /\ o.handles[h].bound = 0
  THEN [os |-> [Called(o, "bind") EXCEPT !.handles[h].bound = port],
        result |-> 0]
  ELSE [os |-> Called(o, "bind"), result |-> -1]

\* ::listen(handle, SOMAXCONN)
OsListen(o, h, ok) ==
  IF ok /\ IsOpen(o, h) /\ o.handles[h].bound # 0
  THEN [os |-> [Called(o, "listen") EXCEPT !.handles[h].listening = TRUE],
        result |-> 0]
  ELSE [os |-> Called(o, "listen"), result |-> -1]

\* faulty variant: the address is looked at before anything is done
bindChecksFirst(w, i, port, address, oks) ==
  IF address = Broadcast THEN [w |-> w, status |-> "Error"]
  ELSE LET w1 == close(w, i)
           w2 == create(w1, i, oks.socket)
           b  == OsBind(w2.os, getNativeHandle(w2, i), port, oks.bind)
       IN  [w      |-> [w2 EXCEPT !.os = b.os],
            status |-> IF b.result = -1 THEN "Error" ELSE "Done"]

\* faulty variant: the address is not looked at
bindAnyAddress(w, i, port, address, oks) ==
  LET w1 == close(w, i)
      w2 == create(w1, i, oks.socket)
      b  == OsBind(w2.os, getNativeHandle(w2, i), port, oks.bind)
  IN  [w      |-> [w2 EXCEPT !.os = b.os],
       status |-> IF b.result = -1 THEN "Error" ELSE "Done"]

\* UdpSocket::bind; oks are the outcomes the OS has in store for socket()
\* and ::bind
bind(w, i, port, address, oks) ==
  LET w1 == close(w, i)
      w2 == create(w1, i, oks.socket)
  IN  IF address = Broadcast THEN [w |-> w2, status |-> "Error"]
      ELSE LET b == OsBind(w2.os, getNativeHandle(w2, i), port, oks.bind)
           IN  [w      |-> [w2 EXCEPT !.os = b.os],
                status |-> IF b.result = -1 THEN "Error" ELSE "Done"]

\* faulty variant: the handle of an earlier listen is kept
listenKeepsHandle(w, i, port, address, oks) ==
  LET w2 == create(w, i, oks.socket)
  IN  IF address = Broadcast THEN [w |-> w2, status |-> "Error"]
      ELSE LET b == OsBind(w2.os, getNativeHandle(w2, i), port, oks.bind)
               l == OsListen(b.os, getNativeHandle(w2, i), oks.listen)
           IN  IF b.result = -1
               THEN [w |-> [w2 EXCEPT !.os = b.os], status |-> "Error"]
               ELSE [w      |-> [w2 EXCEPT !.os = l.os],
                     status |-> IF l.result = -1 THEN "Error" ELSE "Done"]

\* TcpListener::listen; oks are the outcomes of socket(), ::bind and ::listen
listen(w, i, port, address, oks) ==
  LET w1 == close(w, i)
      w2 == create(w1, i, oks.socket)
  IN  IF address = Broadcast THEN [w |-> w2, status |-> "Error"]
      ELSE LET b == OsBind(w2.os, getNativeHandle(w2, i), port, oks.bind)
               l == OsListen(b.os, getNativeHandle(w2, i), oks.listen)
           IN  IF b.result = -1
               THEN [w |-> [w2 EXCEPT !.os = b.os], status |-> "Error"]
               ELSE [w      |-> [w2 EXCEPT !.os = l.os],
                     status |-> IF l.result = -1 THEN "Error" ELSE "Done"]

\* faulty variant: the destination is closed before ::accept is called
acceptClosesFirst(w, i, j, system, pending, errno) ==
  IF getNativeHandle(w, i) = invalidSocket THEN [w |-> w, status |-> "Error"]
  ELSE LET h == getNativeHandle(w, i)
           w0 == close(w, j)
           r == OsAllocate(w0.os, "accept", "SOCK_STREAM",
                           pending /\ IsOpen(w0.os, h)
                                   /\ w0.os.handles[h].listening)
           w1 == [w0 EXCEPT !.os = r.os]
       IN  IF r.handle = invalidSocket
           THEN [w |-> w1, status |-> getErrorStatus(system, errno)]
           ELSE [w |-> createFrom(w1, j, r.handle), status |-> "Done"]

\* TcpListener::accept into the TcpSocket j; pending says whether a
\* connection waits, errno is what ::accept fails with otherwise
accept(w, i, j, system, pending, errno) ==
  IF getNativeHandle(w, i) = invalidSocket THEN [w |-> w, status |-> "Error"]
  ELSE LET h == getNativeHandle(w, i)
           r == OsAllocate(w.os, "accept", "SOCK_STREAM",
                           pending /\ IsOpen(w.os, h)
                                   /\ w.os.handles[h].listening)
           w1 == [w EXCEPT !.os = r.os]
       IN  IF r.handle = invalidSocket
           THEN [w |-> w1, status |-> getErrorStatus(system, errno)]
           ELSE [w |-> createFrom(close(w1, j), j, r.handle),
                 status |-> "Done"]

(***************************************************************************)
(* UdpSocket.  os.wire holds the datagrams the last operation handed to    *)
(* the network: their bytes, their size, the address and the port.         *)
(***************************************************************************)
MaxDatagramSize == 65507

\* UdpSocket::unbind
unbind(w, i) == close(w, i)

\* a buffer argument: the null pointer, or a pointer to bytes
NullBuffer == [null |-> TRUE, bytes |-> <<>>]

Buffer(bytes) == [null |-> FALSE, bytes |-> bytes]

\* the OS is handed the pointer of data: os.null says that a null pointer
\* went to the OS with a size above zero
Handed(o, data, size) ==
  [o EXCEPT !.null = @ \/ (data.null /\ size > 0)]

\* the error of a call on the handle h: EBADF if h is not an open handle
ErrnoOf(o, h, errno) == IF IsOpen(o, h) THEN errno ELSE "EBADF"

\* ::sendto(handle, data, size, 0, address): one datagram, the first size
\* bytes of data, leaves, unless the handle is not open, the OS fails or
\* data is a null pointer with size above zero (EFAULT)
OsSendTo(o, h, data, size, address, port, ok, errno) ==
  LET o1 == Handed(Called(o, "sendto"), data, size)
  IN  IF ok /\ IsOpen(o, h) /\ ~(data.null /\ size > 0)
      THEN [os |-> [o1 EXCEPT
                      !.wire = Append(@, [data    |-> SubSeq(data.bytes, 1, size),
                                          size    |-> size,
                                          address |-> address,
                                          port    |-> port])],
            result |-> size, errno |-> "none"]
      ELSE [os |-> o1, result |-> -1,
            errno |-> IF IsOpen(o, h) /\ data.null /\ size > 0 THEN "EFAULT"
                      ELSE ErrnoOf(o, h, errno)]

\* UdpSocket::send(const void*, std::size_t, IpAddress, unsigned short);
\* ok are the outcomes of socket() and ::sendto, errno the error of a
\* failing ::sendto
UdpSend(w, i, data, size, address, port, system, ok, errno) ==
  LET w1 == create(w, i, ok.socket)
      h  == getNativeHandle(w1, i)
      r  == OsSendTo(w1.os, h, data, size, address, port, ok.sendto, errno)
  IN  IF size > MaxDatagramSize THEN [w |-> w1, status |-> "Error"]
      ELSE [w      |-> [w1 EXCEPT !.os = r.os],
            status |-> IF r.result < 0
                       THEN getErrorStatus(system, r.errno)
                       ELSE "Done"]

\* the pointer Packet::onSend returns: null for an empty packet
DataPointer(p) ==
  IF onSend(p).size = 0 THEN NullBuffer ELSE Buffer(onSend(p).data)

\* faulty variant: the packet goes out behind its size, as on a stream
UdpSendPacketFramed(w, i, p, address, port, system, ok, errno) ==
  UdpSend(w, i, Buffer(FrameBlock(p)), Len(FrameBlock(p)), address, port,
          system, ok, errno)

\* UdpSocket::send(Packet&, IpAddress, unsigned short)
UdpSendPacket(w, i, p, address, port, system, ok, errno) ==
  UdpSend(w, i, DataPointer(p), onSend(p).size, address, port, system, ok,
          errno)

\* ::recvfrom(handle, data, size, 0, &address): arrival is the datagram
\* that waits, if one is present; a datagram longer than the buffer is cut
\* (Unix) or refused with WSAEMSGSIZE (Windows)
OsRecvFrom(o, h, data, size, arrival, system, errno) ==
  LET o1 == Handed(Called(o, "recvfrom"), data, size)
  IN  IF IsOpen(o, h) /\ arrival.present /\ ~(data.null /\ size > 0)
         /\ (system = "unix" \/ arrival.size <= size)
      THEN [os |-> o1, result |-> Min(arrival.size, size), errno |-> "none"]
      ELSE [os |-> o1, result |-> -1,
            errno |-> IF IsOpen(o, h) /\ arrival.present THEN "EMSGSIZE"
                      ELSE ErrnoOf(o, h, errno)]

\* the caller's variables received, remoteAddress (<<>> is std::nullopt)
\* and remotePort
Outputs(received, remoteAddress, remotePort) ==
  [received |-> received, remoteAddress |-> remoteAddress,
   remotePort |-> remotePort]

\* faulty variant: the outputs are written on success only
UdpReceiveLate(w, i, data, size, old, arrival, system, errno) ==
  IF data.null
  THEN [w |-> w, status |-> "Error", outputs |-> old, bytes |-> <<>>]
  ELSE LET r == OsRecvFrom(w.os, getNativeHandle(w, i), data, size, arrival,
                           system, errno)
           w1 == [w EXCEPT !.os = r.os]
       IN  IF r.result < 0
           THEN [w |-> w1, status |-> getErrorStatus(system, r.errno),
                 outputs |-> old, bytes |-> <<>>]
           ELSE [w |-> w1, status |-> "Done",
                 outputs |-> Outputs(r.result, <<arrival.address>>, arrival.port),
                 bytes |-> SubSeq(arrival.data, 1, r.result)]

\* UdpSocket::receive(void*, std::size_t, std::size_t&,
\* std::optional<IpAddress>&, unsigned short&); data is the caller's
\* buffer, old the values of the caller's variables; bytes are the bytes
\* written to the buffer
UdpReceive(w, i, data, size, old, arrival, system, errno) ==
  LET cleared == Outputs(0, <<>>, 0)
  IN  IF data.null
      THEN [w |-> w, status |-> "Error", outputs |-> cleared, bytes |-> <<>>]
      ELSE LET r == OsRecvFrom(w.os, getNativeHandle(w, i), data, size,
                               arrival, system, errno)
               w1 == [w EXCEPT !.os = r.os]
           IN  IF r.result < 0
               THEN [w |-> w1, status |-> getErrorStatus(system, r.errno),
                     outputs |-> cleared, bytes |-> <<>>]
               ELSE [w |-> w1, status |-> "Done",
                     outputs |-> Outputs(r.result, <<arrival.address>>,
                                         arrival.port),
                     bytes |-> SubSeq(arrival.data, 1, r.result)]

\* UdpSocket::receive(Packet&, std::optional<IpAddress>&, unsigned short&):
\* the datagram is received into m_buffer, resized to MaxDatagramSize, and
\* copied to the cleared packet
UdpReceivePacket(w, i, p, old, arrival, system, errno) ==
  LET r == UdpReceive(w, i, Buffer(<<>>), MaxDatagramSize, old, arrival,
                      system, errno)
  IN  [w |-> r.w, status |-> r.status, outputs |-> r.outputs,
       packet |-> IF r.status = "Done" /\ r.outputs.received > 0
                  THEN onReceive(clear(p), r.bytes) ELSE clear(p)]

(***************************************************************************)
(* The objects of the socket specifications: one TcpListener, two          *)
(* TcpSocket objects (the second one not yet constructed) and one          *)
(* UdpSocket, over one OS.  input.lastSet[i] is the argument of the        *)
(* caller's last setBlocking on the object i ("moved" once the object has  *)
(* been given another object's members), lastOp the operation that ran     *)
(* last and the status it returned.                                        *)
(***************************************************************************)
Listener == 1
Streams  == {2, 3}
Datagram == 4
Objects  == {Listener} \cup Streams \cup {Datagram}

Systems == {"unix", "windows"}
Ports   == {7, 8}

\* the objects as their constructors leave them
NewWorld ==
  [sockets |-> [i \in Objects |->
                  IF i = Datagram THEN NewSocket("Udp")
                  ELSE [NewSocket("Tcp") EXCEPT !.alive = (i # 3)]],
   os      |-> NewOs]

\* the world an operation starts in: the calls of the last one and the
\* datagrams it put on the wire are forgotten
World ==
  [sockets |-> sockets,
   os      |-> [os EXCEPT !.calls = <<>>, !.wire = <<>>, !.null = FALSE]]

\* the name of a blocking flag in input.lastSet
FlagName(blocking) == IF blocking THEN "true" ELSE "false"

Did(name, i, j, status) == [op |-> name, i |-> i, j |-> j, status |-> status]

Outcomes == [socket : BOOLEAN, bind : BOOLEAN, listen : BOOLEAN]
AllGood  == [socket |-> TRUE, bind |-> TRUE, listen |-> TRUE]

\* what the socket specifications do not use
SocketsOnly ==
  /\ selector = SelectorIdle
  /\ host = "little"
  /\ sizeW = 8
  /\ packet = NewPacket
  /\ out = <<>>
  /\ pc = "sockets"
  /\ tcp = TcpIdle
  /\ net = NetIdle

Rest == UNCHANGED <<packet, out, host, sizeW, pc, tcp, net, selector>>

\* a stream socket object is constructed
ConstructOp ==
  /\ \E i \in Streams :
       /\ ~sockets[i].alive
       /\ sockets' = [sockets EXCEPT ![i] = NewSocket("Tcp")]
       /\ os' = World.os
       /\ input' = [input EXCEPT !.lastSet[i] = "true"]
       /\ lastOp' = Did("construct", i, 0, "none")
  /\ Rest

\* a stream socket creates its handle, as TcpSocket::connect makes it do
CreateOp ==
  /\ \E i \in Streams : \E ok \in BOOLEAN :
       LET w == create(World, i, ok)
       IN  /\ sockets[i].alive
           /\ sockets' = w.sockets /\ os' = w.os
           /\ lastOp' = Did("create", i, 0, "none")
  /\ UNCHANGED input
  /\ Rest

SetBlockingOp ==
  /\ \E i \in Streams : \E blocking \in BOOLEAN :
       LET w == setBlocking(World, i, blocking)
       IN  /\ sockets[i].alive
           /\ sockets' = w.sockets /\ os' = w.os
           /\ input' = [input EXCEPT !.lastSet[i] = FlagName(blocking)]
           /\ lastOp' = Did("setBlocking", i, 0, "none")
  /\ Rest

\* close() on a stream socket, as TcpSocket::disconnect makes it do
CloseOp ==
  /\ \E i \in Streams :
       LET w == close(World, i)
       IN  /\ sockets[i].alive
           /\ sockets' = w.sockets /\ os' = w.os
           /\ lastOp' = Did("close", i, 0, "none")
  /\ UNCHANGED input
  /\ Rest

DestroyOp ==
  /\ \E i \in Streams :
       LET w == Destroy(World, i)
       IN  /\ sockets[i].alive
           /\ sockets' = w.sockets /\ os' = w.os
           /\ lastOp' = Did("destroy", i, 0, "none")
  /\ UNCHANGED input
  /\ Rest

MoveConstructOp ==
  /\ \E i \in Streams : \E j \in Streams :
       LET w == MoveConstruct(World, i, j)
       IN  /\ ~sockets[i].alive /\ sockets[j].alive
           /\ sockets' = w.sockets /\ os' = w.os
           /\ input' = [input EXCEPT !.lastSet[i] = "moved"]
           /\ lastOp' = Did("moveConstruct", i, j, "none")
  /\ Rest

MoveAssignOp ==
  /\ \E i \in Streams : \E j \in Streams :
       LET w == MoveAssign(World, i, j)
       IN  /\ sockets[i].alive /\ sockets[j].alive
           /\ sockets' = w.sockets /\ os' = w.os
           /\ input' = [input EXCEPT
                          !.lastSet[i] = IF i # j THEN "moved" ELSE @]
           /\ lastOp' = Did("moveAssign", i, j, "none")
  /\ Rest

ListenOp ==
  /\ \E port \in Ports : \E address \in {AnyAddress, Broadcast} :
     \E oks \in Outcomes :
       LET r == listen(World, Listener, port, address, oks)
       IN  /\ sockets' = r.w.sockets /\ os' = r.w.os
           /\ lastOp' = [Did("listen", Listener, 0, r.status) EXCEPT
                           !.j = IF address = Broadcast THEN 0 ELSE port]
  /\ UNCHANGED input
  /\ Rest

AcceptErrnos == {"EWOULDBLOCK", "ECONNABORTED", "EMFILE"}

AcceptOp ==
  /\ \E j \in Streams : \E pending \in BOOLEAN : \E errno \in AcceptErrnos :
       LET r == accept(World, Listener, j, input.system, pending, errno)
       IN  /\ sockets[j].alive
           /\ sockets' = r.w.sockets /\ os' = r.w.os
           /\ lastOp' = [op |-> "accept", i |-> Listener, j |-> j,
                         status |-> r.status,
                         errno  |-> IF getNativeHandle(World, Listener)
                                         # invalidSocket
                                       /\ r.status # "Done"
                                    THEN errno ELSE "none"]
  /\ UNCHANGED input
  /\ Rest

BindOp ==
  /\ \E port \in Ports : \E address \in {AnyAddress, Broadcast} :
     \E oks \in Outcomes :
       LET r == bind(World, Datagram, port, address, oks)
       IN  /\ oks.listen
           /\ sockets' = r.w.sockets /\ os' = r.w.os
           /\ lastOp' = [Did("bind", Datagram, 0, r.status) EXCEPT
                           !.j = IF address = Broadcast THEN 0 ELSE port]
  /\ UNCHANGED input
  /\ Rest

(***************************************************************************)
(* SpecSocket: the listener listens; the caller constructs, moves, closes  *)
(* and destroys the stream sockets, sets blocking modes and accepts        *)
(* connections into the stream sockets.                                    *)
(***************************************************************************)
SocketInit ==
  /\ LET w == listen(NewWorld, Listener, 7, AnyAddress, AllGood).w
     IN  sockets = w.sockets /\ os = w.os
  /\ input = [system |-> "unix", lastSet |-> [i \in Objects |-> "true"]]
  /\ lastOp = Did("listen", Listener, 7, "Done")
  /\ SocketsOnly

SocketNext ==
  \/ ConstructOp \/ CreateOp \/ SetBlockingOp \/ CloseOp \/ DestroyOp
  \/ MoveConstructOp \/ MoveAssignOp \/ AcceptOp

SpecSocket == SocketInit /\ [][SocketNext]_vars

(***************************************************************************)
(* SpecListen: the caller lets the listener listen on one port and then on *)
(* another, accepts into the first stream socket, which may hold a handle  *)
(* of its own and be non-blocking, and binds the datagram socket.          *)
(***************************************************************************)
ListenInit ==
  /\ sockets = NewWorld.sockets /\ os = NewWorld.os
  /\ input = [system |-> "unix", lastSet |-> [i \in Objects |-> "true"]]
  /\ lastOp = Did("none", 0, 0, "none")
  /\ SocketsOnly

ListenNext ==
  \/ ListenOp \/ AcceptOp \/ BindOp \/ CreateOp \/ SetBlockingOp

SpecListen == ListenInit /\ [][ListenNext]_vars

(***************************************************************************)
(* Properties of SpecSocket.                                               *)
(***************************************************************************)
\* the live Socket objects that hold the handle h
Holders(h) == {i \in Objects : sockets[i].alive /\ sockets[i].m_socket = h}

\* C12: every handle the OS handed out is either open, never closed and
\* held by exactly one live Socket object, or closed exactly once and held
\* by none; an object that is not alive holds no handle, and the source of
\* a move holds the sentinel afterwards.
C12_HandleOwnedOnceClosedOnce ==
  /\ \A h \in 1..Len(os.handles) :
       IF os.handles[h].open
       THEN os.handles[h].closes = 0 /\ Cardinality(Holders(h)) = 1
       ELSE os.handles[h].closes = 1 /\ Holders(h) = {}
  /\ \A i \in Objects :
       /\ sockets[i].m_socket \in {invalidSocket} \cup 1..Len(os.handles)
       /\ ~sockets[i].alive => sockets[i].m_socket = invalidSocket
  /\ (lastOp.op \in {"moveConstruct", "moveAssign"} /\ lastOp.i # lastOp.j)
       => sockets[lastOp.j].m_socket = invalidSocket

\* a move assignment closed the handle of its target and gave it the
\* accepted handle of its source
C12_Witness ==
  /\ lastOp.op = "moveAssign" /\ lastOp.i # lastOp.j
  /\ IsOpen(os, sockets[lastOp.i].m_socket)
  /\ os.calls = <<"close">>
  /\ \E h \in 1..Len(os.handles) : os.handles[h].closes = 1

\* C13: a close() or a destructor on a socket that holds a handle closes
\* that handle once, with one OS call, and leaves the sentinel; on a socket
\* that holds the sentinel it makes no OS call and changes nothing (the
\* destructor ends the object's life).
C13_CloseIsIdempotent ==
  [][ lastOp'.op \in {"close", "destroy"} =>
        LET i == lastOp'.i
            h == sockets[i].m_socket
        IN  /\ sockets'[i].m_socket = invalidSocket
            /\ \A k \in Objects \ {i} : sockets'[k] = sockets[k]
            /\ sockets'[i].m_isBlocking = sockets[i].m_isBlocking
            /\ IF h # invalidSocket
               THEN /\ os'.calls = <<"close">>
                    /\ os'.handles[h].closes = os.handles[h].closes + 1
                    /\ ~os'.handles[h].open
                    /\ \A g \in 1..Len(os.handles) \ {h} :
                         os'.handles[g] = os.handles[g]
               ELSE /\ os'.calls = <<>>
                    /\ os'.handles = os.handles ]_vars

\* a second close() right after a close() that released a handle
C13_Witness ==
  /\ lastOp.op = "close"
  /\ os.calls = <<>>
  /\ sockets[lastOp.i].m_socket = invalidSocket
  /\ \E h \in 1..Len(os.handles) : os.handles[h].closes = 1

C37_HandleModeIsIsBlocking ==
  \A i \in Objects :
    (sockets[i].alive /\ getNativeHandle(World, i) # invalidSocket) =>
       /\ IsOpen(os, getNativeHandle(World, i))
       /\ os.handles[getNativeHandle(World, i)].nonblocking
            = ~isBlocking(World, i)

\* a move assignment gave an object a non-blocking handle and the flag
\* false with it; a handle has been closed before
C37_Witness ==
  /\ lastOp.op = "moveAssign" /\ lastOp.i # lastOp.j
  /\ ~isBlocking(World, lastOp.i)
  /\ IsOpen(os, sockets[lastOp.i].m_socket)
  /\ os.handles[sockets[lastOp.i].m_socket].nonblocking
  /\ \E h \in 1..Len(os.handles) :
        os.handles[h].closes = 1 /\ ~os.handles[h].open

(***************************************************************************)
(* Properties of SpecListen.                                               *)
(***************************************************************************)
\* the handle the object i holds is open, unbound and not listening, or
\* the object holds no handle
Unbound(i) ==
  \/ sockets[i].m_socket = invalidSocket
  \/ /\ IsOpen(os, sockets[i].m_socket)
     /\ os.handles[sockets[i].m_socket].bound = 0
     /\ ~os.handles[sockets[i].m_socket].listening

\* C17: TcpListener::listen and UdpSocket::bind with the Broadcast address
\* (recorded as lastOp.j = 0) return Error for every port and every OS
\* outcome, never call ::bind or ::listen, and leave the object with no
\* handle or with a handle that is neither bound nor listening.
C17_BroadcastIsRefused ==
  (lastOp.op \in {"listen", "bind"} /\ lastOp.j = 0) =>
     /\ lastOp.status = "Error"
     /\ Unbound(lastOp.i)
     /\ \A k \in 1..Len(os.calls) : os.calls[k] \notin {"bind", "listen"}
     /\ \A h \in 1..Len(os.handles) :
          os.handles[h].bound # 0 => \E i \in Objects \ {lastOp.i} :
                                        sockets[i].m_socket = h

\* listen with Broadcast on a listener that was listening: the earlier
\* handle is closed, the new one is unbound
C17_Witness ==
  /\ lastOp = Did("listen", Listener, 0, "Error")
  /\ Len(os.handles) = 2
  /\ ~os.handles[1].open /\ os.handles[1].closes = 1
  /\ sockets[Listener].m_socket = 2
  /\ Unbound(Listener)

\* at most one handle is listening and the listener holds it; every open
\* handle has one holder; a listen that returned Done on the port p left
\* the listener's handle listening on p
ListensOnOne ==
  /\ \A h \in 1..Len(os.handles) :
       /\ os.handles[h].listening =>
            os.handles[h].open /\ sockets[Listener].m_socket = h
       /\ os.handles[h].open => Cardinality(Holders(h)) = 1
  /\ (lastOp.op = "listen" /\ lastOp.status = "Done") =>
       /\ IsOpen(os, sockets[Listener].m_socket)
       /\ os.handles[sockets[Listener].m_socket].listening
       /\ os.handles[sockets[Listener].m_socket].bound = lastOp.j

\* a call of listen closes the handle the listener held before it, once,
\* and never leaves the listener with that handle
ListenClosesEarlier ==
  lastOp'.op = "listen" =>
    LET h == sockets[Listener].m_socket
    IN  h # invalidSocket =>
          /\ ~os'.handles[h].open
          /\ os'.handles[h].closes = 1
          /\ sockets'[Listener].m_socket # h

\* C18: after any sequence of listen calls the listener holds at most one
\* handle, that of the most recent call; the handles of the earlier calls
\* are closed; after listen(p1), listen(p2) the listener listens on p2 only.
C18_ListenReplacesTheHandle ==
  []ListensOnOne /\ [][ListenClosesEarlier]_vars

\* listen on port 8 after a listen whose handle is now closed
C18_Witness ==
  /\ lastOp = Did("listen", Listener, 8, "Done")
  /\ Len(os.handles) = 2
  /\ ~os.handles[1].open /\ os.handles[1].closes = 1
  /\ os.handles[2].listening /\ os.handles[2].bound = 8
  /\ sockets[Listener].m_socket = 2

\* C19: accept changes its destination only when it returns Done.  With
\* no handle in the listener it returns Error, makes no OS call and changes
\* nothing; when ::accept fails it returns the status of the error
\* (NotReady if the call would block) and leaves the destination and its
\* handle as they were; on success the destination's earlier handle is
\* closed and the destination holds the accepted handle, with the
\* destination's own blocking flag applied to it.
C19_AcceptTouchesDestinationOnSuccess ==
  [][ lastOp'.op = "accept" =>
        LET j   == lastOp'.j
            old == sockets[j].m_socket
            new == sockets'[j].m_socket
        IN  /\ \A k \in Objects \ {j} : sockets'[k] = sockets[k]
            /\ sockets[Listener].m_socket = invalidSocket =>
                 /\ lastOp'.status = "Error"
                 /\ os'.calls = <<>>
            /\ lastOp'.status # "Done" =>
                 /\ sockets'[j] = sockets[j]
                 /\ os'.handles = os.handles
            /\ lastOp'.errno # "none" =>
                 lastOp'.status = CASE lastOp'.errno = "EWOULDBLOCK"  -> "NotReady"
                                    [] lastOp'.errno = "ECONNABORTED" -> "Disconnected"
                                    [] OTHER                          -> "Error"
            /\ lastOp'.status = "Done" =>
                 /\ new = Len(os.handles) + 1
                 /\ Len(os'.handles) = new
                 /\ os'.handles[new].open
                 /\ os'.handles[new].nonblocking = ~sockets[j].m_isBlocking
                 /\ sockets'[j].m_isBlocking = sockets[j].m_isBlocking
                 /\ old # invalidSocket =>
                      ~os'.handles[old].open /\ os'.handles[old].closes = 1
                 /\ \A g \in 1..Len(os.handles) \ {old} :
                      os'.handles[g] = os.handles[g] ]_vars

\* a successful accept into a non-blocking socket that held a handle
C19_Witness ==
  /\ lastOp.op = "accept" /\ lastOp.status = "Done"
  /\ ~sockets[lastOp.j].m_isBlocking
  /\ sockets[lastOp.j].m_socket = 3
  /\ os.handles[3].open /\ os.handles[3].nonblocking
  /\ ~os.handles[2].open /\ os.handles[2].type = "SOCK_STREAM"
  /\ os.handles[1].listening

(***************************************************************************)
(* SpecUdp: one UdpSocket on one of the two systems.  The caller binds     *)
(* and unbinds it, sends buffers and packets of sizes around the ceiling   *)
(* and receives into its variables out, which keep the values of the call  *)
(* before.  lastOp.held says whether the socket held a handle when the     *)
(* operation began.                                                        *)
(***************************************************************************)
SendSizes == {0, 1, MaxDatagramSize, MaxDatagramSize + 1}

SendOutcomes == [socket : BOOLEAN, sendto : BOOLEAN]

\* the errors of ::sendto and ::recvfrom on a socket that is never connected
UdpErrnos == {"EWOULDBLOCK", "ECONNRESET", "ENETUNREACH"}

BufferSizes == {1, 2}

NoArrival ==
  [present |-> FALSE, data |-> <<>>, size |-> 0, address |-> AnyAddress,
   port |-> 0]

\* the datagram of the bytes data from the port p of this host
Arrival(data, p) ==
  [present |-> TRUE, data |-> data, size |-> Len(data), address |-> LocalHost,
   port |-> p]

Arrivals == {NoArrival, Arrival(<<1, 2>>, 8)}

\* a packet of n bytes
PacketOfSize(n) == append(NewPacket, [k \in 1..n |-> 0])

\* the packets the caller sends, one of each size
PacketsToSend == [n \in SendSizes |-> PacketOfSize(n)]

\* the buffers the caller sends from: the null pointer, or size bytes
BuffersToSend ==
  [n \in SendSizes |-> {NullBuffer, Buffer([k \in 1..n |-> 0])}]

DidUdp(name, data, size, status) ==
  [op |-> name, i |-> Datagram, j |-> 0, status |-> status, size |-> size,
   null |-> data.null,
   held |-> sockets[Datagram].m_socket # invalidSocket,
   old  |-> IF name = "receive" THEN out ELSE Outputs(0, <<>>, 0)]

UdpRest == UNCHANGED <<packet, host, sizeW, pc, tcp, net, selector, input>>

UdpSendOp ==
  /\ \E size \in SendSizes : \E data \in BuffersToSend[size] :
     \E ok \in SendOutcomes : \E errno \in UdpErrnos :
       LET r == UdpSend(World, Datagram, data, size, LocalHost, 7,
                        input.system, ok, errno)
       IN  /\ sockets' = r.w.sockets /\ os' = r.w.os
           /\ lastOp' = DidUdp("send", data, size, r.status)
  /\ UNCHANGED out
  /\ UdpRest

UdpSendPacketOp ==
  /\ \E size \in SendSizes : \E ok \in SendOutcomes : \E errno \in UdpErrnos :
       LET r == UdpSendPacket(World, Datagram, PacketsToSend[size], LocalHost,
                              7, input.system, ok, errno)
       IN  /\ sockets' = r.w.sockets /\ os' = r.w.os
           /\ lastOp' = DidUdp("sendPacket", Buffer(<<>>), size, r.status)
  /\ UNCHANGED out
  /\ UdpRest

UdpReceiveOp ==
  /\ \E data \in {NullBuffer, Buffer(<<>>)} : \E size \in BufferSizes :
     \E arrival \in Arrivals : \E errno \in UdpErrnos :
       LET r == UdpReceive(World, Datagram, data, size, out, arrival,
                           input.system, errno)
       IN  /\ sockets' = r.w.sockets /\ os' = r.w.os
           /\ out' = r.outputs
           /\ lastOp' = DidUdp("receive", data, size, r.status)
  /\ UdpRest

UnbindOp ==
  /\ LET w == unbind(World, Datagram)
     IN  /\ sockets' = w.sockets /\ os' = w.os
         /\ lastOp' = DidUdp("unbind", Buffer(<<>>), 0, "none")
  /\ UNCHANGED out
  /\ UdpRest

UdpBindOp ==
  /\ \E port \in {7} : \E ok \in SendOutcomes :
       LET r == bind(World, Datagram, port, AnyAddress,
                     [socket |-> ok.socket, bind |-> ok.sendto])
       IN  /\ sockets' = r.w.sockets /\ os' = r.w.os
           /\ lastOp' = DidUdp("bind", Buffer(<<>>), 0, r.status)
  /\ UNCHANGED out
  /\ UdpRest

UdpInit ==
  /\ sockets = NewWorld.sockets
  /\ os = NewWorld.os
  /\ input \in {[system |-> s, lastSet |-> [i \in Objects |-> "true"]] :
                  s \in Systems}
  /\ lastOp = [op |-> "none", i |-> 0, j |-> 0, status |-> "none",
               size |-> 0, null |-> FALSE, held |-> FALSE,
               old |-> Outputs(0, <<>>, 0)]
  /\ out = Outputs(0, <<>>, 0)
  /\ selector = SelectorIdle
  /\ host = "little"
  /\ sizeW = 8
  /\ packet = NewPacket
  /\ pc = "udp"
  /\ tcp = TcpIdle
  /\ net = NetIdle

UdpNext ==
  UdpSendOp \/ UdpSendPacketOp \/ UdpReceiveOp \/ UnbindOp \/ UdpBindOp

SpecUdp == UdpInit /\ [][UdpNext]_vars

(***************************************************************************)
(* Properties of SpecUdp.                                                  *)
(***************************************************************************)
\* the calls of ::sendto among the OS calls of the last operation
SendCalls == {k \in 1..Len(os.calls) : os.calls[k] = "sendto"}

\* C11: a send of more than MaxDatagramSize bytes, from a buffer or from a
\* packet, returns Error, makes no OS call and puts nothing on the wire; a
\* send of at most MaxDatagramSize bytes calls ::sendto once, with the
\* whole payload.
C11_OversizedSendMakesNoOsCall ==
  lastOp.op \in {"send", "sendPacket"} =>
    IF lastOp.size > MaxDatagramSize
    THEN lastOp.status = "Error" /\ os.calls = <<>> /\ os.wire = <<>>
    ELSE /\ Cardinality(SendCalls) = 1
         /\ \A k \in 1..Len(os.wire) : os.wire[k].size = lastOp.size
         /\ Len(os.wire) <= 1

\* what UdpSocket::send does: an oversized send returns Error, never
\* calls ::sendto and puts nothing on the wire, and makes no OS call at all
\* if the socket held a handle; without a handle its only OS calls are
\* those of Socket::create()
OversizedSendNeverReachesSendTo ==
  (lastOp.op \in {"send", "sendPacket"} /\ lastOp.size > MaxDatagramSize) =>
    /\ lastOp.status = "Error"
    /\ SendCalls = {} /\ os.wire = <<>>
    /\ lastOp.held => os.calls = <<>>

\* C20: when the raw receive returns a status other than Done, received
\* is 0, the sender address is unset and the sender port is 0, whatever
\* the variables held before the call.
C20_FailedReceiveClearsOutputs ==
  (lastOp.op = "receive" /\ lastOp.status # "Done") =>
     out = Outputs(0, <<>>, 0)

\* a receive that would block, into variables that held the datagram
\* of the receive before
C20_Witness ==
  /\ lastOp.op = "receive" /\ lastOp.status = "NotReady"
  /\ lastOp.old.received = 2
  /\ lastOp.old.remoteAddress = <<LocalHost>>
  /\ lastOp.old.remotePort = 8
  /\ out = Outputs(0, <<>>, 0)
  /\ os.calls = <<"recvfrom">>

(***************************************************************************)
(* SocketSelector.  The selector keeps the native handles of the sockets   *)
(* added to it and the snapshot of the last wait: the registered handles   *)
(* that were readable.                                                     *)
(***************************************************************************)
NewSelector == [registered |-> {}, ready |-> {}]

\* faulty variant: a socket without a handle is registered, too
addAnyHandle(sel, w, i) ==
  [sel EXCEPT !.registered = @ \cup {getNativeHandle(w, i)}]

\* SocketSelector::add
add(sel, w, i) ==
  IF getNativeHandle(w, i) # invalidSocket
  THEN [sel EXCEPT !.registered = @ \cup {getNativeHandle(w, i)}]
  ELSE sel

\* SocketSelector::remove
remove(sel, w, i) ==
  IF getNativeHandle(w, i) # invalidSocket
  THEN [sel EXCEPT !.registered = @ \ {getNativeHandle(w, i)},
                   !.ready      = @ \ {getNativeHandle(w, i)}]
  ELSE sel

\* SocketSelector::clear
SelectorClear(sel) == [sel EXCEPT !.registered = {}, !.ready = {}]

\* faulty variant: the snapshot of the wait before is kept
waitKeepsSnapshot(sel, readable) ==
  LET ready == sel.ready \cup (sel.registered \cap readable)
  IN  [sel |-> [sel EXCEPT !.ready = ready], result |-> ready # {}]

\* SocketSelector::wait that returns: readable are the handles that become
\* readable before the timeout elapses
wait(sel, readable) ==
  LET ready == sel.registered \cap readable
  IN  [sel |-> [sel EXCEPT !.ready = ready], result |-> ready # {}]

\* SocketSelector::isReady
isReady(sel, w, i) ==
  getNativeHandle(w, i) # invalidSocket /\ getNativeHandle(w, i) \in sel.ready

(***************************************************************************)
(* SpecSelector: one selector over a listening TcpListener, the stream     *)
(* sockets and a UdpSocket that has no handle.  Stream sockets are         *)
(* constructed and get their handles; the caller adds, removes, clears     *)
(* and waits.  A wait without timeout returns only if a registered socket  *)
(* becomes readable.                                                       *)
(***************************************************************************)
Timeouts == {0, 10}

OpenHandles == {h \in 1..Len(os.handles) : os.handles[h].open}

DidWait(readable, timeout, result) ==
  [op |-> "wait", i |-> 0, j |-> timeout, status |-> "none",
   readable |-> readable, result |-> result]

SelectorRest == UNCHANGED <<packet, out, host, sizeW, pc, tcp, net, input>>

AddOp ==
  /\ \E i \in Objects :
       /\ sockets[i].alive
       /\ selector' = add(selector, World, i)
       /\ lastOp' = Did("add", i, 0, "none")
  /\ os' = World.os
  /\ UNCHANGED sockets
  /\ SelectorRest

RemoveOp ==
  /\ \E i \in Objects :
       /\ sockets[i].alive
       /\ selector' = remove(selector, World, i)
       /\ lastOp' = Did("remove", i, 0, "none")
  /\ os' = World.os
  /\ UNCHANGED sockets
  /\ SelectorRest

SelectorClearOp ==
  /\ selector' = SelectorClear(selector)
  /\ lastOp' = Did("clear", 0, 0, "none")
  /\ os' = World.os
  /\ UNCHANGED sockets
  /\ SelectorRest

WaitOp ==
  /\ \E readable \in SUBSET OpenHandles : \E timeout \in Timeouts :
       LET r == wait(selector, readable)
       IN  /\ timeout = 0 => r.result
           /\ selector' = r.sel
           /\ lastOp' = DidWait(readable, timeout, r.result)
  /\ os' = World.os
  /\ UNCHANGED sockets
  /\ SelectorRest

SelectorInit ==
  /\ sockets = listen(NewWorld, Listener, 7, AnyAddress, AllGood).w.sockets
  /\ os = listen(NewWorld, Listener, 7, AnyAddress, AllGood).w.os
  /\ input = [system |-> "unix", lastSet |-> [i \in Objects |-> "true"]]
  /\ lastOp = Did("listen", Listener, 7, "Done")
  /\ selector = NewSelector
  /\ host = "little"
  /\ sizeW = 8
  /\ packet = NewPacket
  /\ out = <<>>
  /\ pc = "selector"
  /\ tcp = TcpIdle
  /\ net = NetIdle

\* the socket operations leave the selector alone
SelectorSocketOp ==
  /\ pc = "selector"
  /\ \E i \in Streams :
       \/ /\ ~sockets[i].alive
          /\ sockets' = [sockets EXCEPT ![i] = NewSocket("Tcp")]
          /\ os' = World.os
          /\ lastOp' = Did("construct", i, 0, "none")
       \/ \E ok \in BOOLEAN :
            LET w == create(World, i, ok)
            IN  /\ sockets[i].alive
                /\ sockets' = w.sockets /\ os' = w.os
                /\ lastOp' = Did("create", i, 0, "none")
  /\ UNCHANGED selector
  /\ SelectorRest

SelectorNext ==
  AddOp \/ RemoveOp \/ SelectorClearOp \/ WaitOp \/ SelectorSocketOp

SpecSelector == SelectorInit /\ [][SelectorNext]_vars

(***************************************************************************)
(* Properties of SpecSelector.                                             *)
(***************************************************************************)
\* the live sockets whose handle is registered
Registered == {i \in Objects : sockets[i].alive
                               /\ sockets[i].m_socket \in selector.registered}

\* the registered sockets that became readable during the last wait
BecameReadable == {i \in Registered : sockets[i].m_socket \in lastOp.readable}

\* C15: after a wait during which no registered socket became readable,
\* wait has returned false and isReady is false for every registered
\* socket; after a wait during which exactly one registered socket became
\* readable, wait has returned true and isReady is true for that socket
\* and for no other registered socket.
C15_WaitReportsTheReadableSocket ==
  lastOp.op = "wait" =>
    /\ BecameReadable = {} =>
         /\ ~lastOp.result
         /\ \A i \in Registered : ~isReady(selector, World, i)
    /\ Cardinality(BecameReadable) = 1 =>
         /\ lastOp.result
         /\ \A i \in Registered :
              isReady(selector, World, i) <=> i \in BecameReadable

\* the listener, one of two registered sockets, became readable: it is
\* ready and the stream socket is not
C15_Witness ==
  /\ lastOp.op = "wait" /\ lastOp.result
  /\ Cardinality(Registered) = 2
  /\ Cardinality(BecameReadable) = 1
  /\ isReady(selector, World, Listener)
  /\ ~isReady(selector, World, 2)
  /\ 2 \in Registered

\* no socket is ready that is not registered, and a wait that returned
\* true found a registered socket readable
ReadyIsRegistered ==
  /\ selector.ready \subseteq selector.registered
  /\ invalidSocket \notin selector.registered
  /\ (lastOp.op = "wait" /\ lastOp.result) =>
        lastOp.readable \cap selector.registered # {}

\* add on a socket without a handle changes no registration; remove
\* takes the handle of its socket out of the registrations and leaves the
\* other registrations, the sockets and the OS handles as they were; clear
\* leaves no registration
RegistrationsOnly ==
  /\ lastOp'.op \in {"add", "remove", "clear"} =>
       sockets' = sockets /\ os'.handles = os.handles /\ os'.calls = <<>>
  /\ (lastOp'.op = "add" /\ sockets[lastOp'.i].m_socket = invalidSocket) =>
       selector'.registered = selector.registered
  /\ lastOp'.op = "remove" =>
       selector'.registered =
         selector.registered \ {sockets[lastOp'.i].m_socket}
  /\ lastOp'.op = "clear" => selector'.registered = {}

\* C16: add on a socket without a handle leaves the registrations
\* unchanged; remove(s) deletes the registration of s only and changes
\* neither s nor any other registration; after remove(s) or clear() no
\* wait is satisfied by s, until s is added again.
C16_RemoveDeletesOneRegistration ==
  []ReadyIsRegistered /\ [][RegistrationsOnly]_vars

\* a wait with timeout returned false although the listener, removed
\* from the selector, was readable; the stream socket is still registered
C16_Witness ==
  /\ lastOp.op = "wait" /\ ~lastOp.result
  /\ sockets[Listener].m_socket \in lastOp.readable
  /\ sockets[Listener].m_socket \notin selector.registered
  /\ 2 \in Registered

\* a receive into a null buffer returns Error and hands no pointer to
\* the OS: it makes no OS call at all
NullReceiveIsRefused ==
  (lastOp.op = "receive" /\ lastOp.null) =>
     lastOp.status = "Error" /\ os.calls = <<>> /\ ~os.null

\* C21: a send or a receive with a null buffer and a size above zero
\* returns Error and hands no null pointer to the OS.
C21_NullBufferNeverReachesTheOs ==
  (lastOp.op \in {"send", "receive"} /\ lastOp.null /\ lastOp.size > 0) =>
     lastOp.status = "Error" /\ ~os.null

(***************************************************************************)
(* SpecDatagram: a UdpSocket bound to port 7 sends packets to its own      *)
(* address and port and receives them into the caller's packet.  net       *)
(* holds the datagrams in flight, each with the bytes of the packet it     *)
(* was sent from; datagrams arrive in any order or are lost.               *)
(***************************************************************************)
MaxInFlight == 1

\* the buffers of the packets sent: empty, one and two bytes, and bytes
\* that read as a length and a payload
DatagramPayloads == {<<>>, <<7>>, <<1, 201>>, <<0, 0, 0, 1, 5>>}

\* the datagrams the last operation put on the wire, as they will arrive
Sent(wire, p) ==
  [k \in 1..Len(wire) |->
     [arrival |-> Arrival(wire[k].data, 7), sent |-> getData(p)]]

\* the sequence q without its element k
Without(q, k) == SubSeq(q, 1, k - 1) \o SubSeq(q, k + 1, Len(q))

DgRest == UNCHANGED <<host, sizeW, pc, tcp, selector, input>>

DgSendOp ==
  /\ Len(net) < MaxInFlight
  /\ \E payload \in DatagramPayloads : \E ok \in BOOLEAN :
     \E errno \in UdpErrnos :
       LET p == append(NewPacket, payload)
           r == UdpSendPacket(World, Datagram, p, LocalHost, 7, input.system,
                              [socket |-> TRUE, sendto |-> ok], errno)
       IN  /\ sockets' = r.w.sockets /\ os' = r.w.os
           /\ net' = net \o Sent(r.w.os.wire, p)
           /\ lastOp' = [op |-> "sendPacket", status |-> r.status,
                         sent |-> getData(p)]
  /\ UNCHANGED <<packet, out>>
  /\ DgRest

DgReceiveOp ==
  /\ \E k \in 0..Len(net) : \E errno \in UdpErrnos :
       LET arrival == IF k = 0 THEN NoArrival ELSE net[k].arrival
           r == UdpReceivePacket(World, Datagram, packet, out, arrival,
                                 input.system, errno)
       IN  /\ sockets' = r.w.sockets /\ os' = r.w.os
           /\ packet' = r.packet
           /\ out' = r.outputs
           /\ net' = IF k = 0 THEN net ELSE Without(net, k)
           /\ lastOp' = [op |-> "receivePacket", status |-> r.status,
                         sent |-> IF k = 0 THEN <<>> ELSE net[k].sent,
                         arrived |-> k # 0, old |-> packet]
  /\ DgRest

DgLoseOp ==
  /\ \E k \in 1..Len(net) : net' = Without(net, k)
  /\ os' = World.os
  /\ lastOp' = [op |-> "lose", status |-> "none", sent |-> <<>>]
  /\ UNCHANGED <<sockets, packet, out>>
  /\ DgRest

DgInit ==
  /\ sockets = bind(NewWorld, Datagram, 7, AnyAddress, AllGood).w.sockets
  /\ os = bind(NewWorld, Datagram, 7, AnyAddress, AllGood).w.os
  /\ input \in {[system |-> s, lastSet |-> [i \in Objects |-> "true"]] :
                  s \in Systems}
  /\ lastOp = [op |-> "bind", status |-> "Done", sent |-> <<>>]
  /\ packet \in {NewPacket, StalePacket}
  /\ out = Outputs(0, <<>>, 0)
  /\ net = <<>>
  /\ selector = SelectorIdle
  /\ host = "little"
  /\ sizeW = 8
  /\ pc = "datagram"
  /\ tcp = TcpIdle

DgNext == DgSendOp \/ DgReceiveOp \/ DgLoseOp

SpecDatagram == DgInit /\ [][DgNext]_vars

(***************************************************************************)
(* Properties of SpecDatagram.                                             *)
(***************************************************************************)
\* C22: a packet sent with Done has left as exactly one datagram whose
\* bytes are the packet's buffer, nothing before and nothing after them;
\* the receive of a datagram returns Done with a packet whose buffer is the
\* bytes of the packet the datagram was sent from, read position 0 and
\* valid, whatever the packet held before, and reports the sender.
C22_OneDatagramIsOnePacket ==
  /\ (lastOp.op = "sendPacket" /\ lastOp.status = "Done") =>
       /\ Len(os.wire) = 1
       /\ os.wire[1].data = lastOp.sent
       /\ os.wire[1].size = Len(lastOp.sent)
       /\ SendCalls = {1}
  /\ (lastOp.op = "receivePacket" /\ lastOp.arrived) =>
       /\ lastOp.status = "Done"
       /\ packet = append(NewPacket, lastOp.sent)
       /\ packet.m_readPos = 0 /\ packet.m_isValid
       /\ out = Outputs(Len(lastOp.sent), <<LocalHost>>, 7)

\* a two-byte packet arrived in a packet that held other bytes, with a
\* failed read behind it
C22_Witness ==
  /\ lastOp.op = "receivePacket" /\ lastOp.arrived /\ lastOp.status = "Done"
  /\ lastOp.old = StalePacket
  /\ Len(lastOp.sent) = 2
  /\ getData(packet) = lastOp.sent

(***************************************************************************)
(* TcpServer.  Two threads run: the caller's, which calls start, stop,     *)
(* send and disconnect, and the server thread, which runs serverLoop.     *)
(* tcp holds the members of the TcpServer, selector the registrations of   *)
(* m_selector (0 is the listener, a ClientId the socket of that client),   *)
(* pc the place of each thread, out the local variables of serverLoop and  *)
(* input the history: the ids given out, the threads started, the ids     *)
(* onConnection was called with and the calls of onDisconnection.  A lock  *)
(* section that calls no callback is one step; the sections that call one  *)
(* hold m_mutex over the steps of the callback.                            *)
(***************************************************************************)
MaxClients == 2

\* the starts of the server thread that are followed
MaxStarts == 2

ListenerKey == 0

NewTcpServer ==
  [m_running |-> FALSE, m_nextClientId |-> 1, m_clients |-> {},
   m_mutex |-> "free", m_thread |-> "none", listening |-> FALSE]

NewLocals == [toVisit |-> {}, toRemove |-> {}, id |-> 0]

ServerRest == UNCHANGED <<packet, host, sizeW, net, sockets, os>>

\* the process runs: no thread has ended it
Alive == pc.server # "aborted"

\* the process has ended
Aborted == [caller |-> "aborted", server |-> "aborted"]

\* what a callback that calls send on the server leads to on its thread:
\* with m_mutex free the call returns; with m_mutex held by the other
\* thread it waits where it is; with m_mutex held by this thread
\* std::mutex::lock is undefined: the thread waits for itself, or the
\* process ends
CallbackSend(thread, back) ==
  IF tcp.m_mutex = "free" THEN {[pc EXCEPT ![thread] = back]}
  ELSE IF tcp.m_mutex = thread
  THEN {[pc EXCEPT ![thread] = "sendLock"], Aborted}
  ELSE {}

\* a callback returns, having called send on the server or not
Callback(thread, back) ==
  {[pc EXCEPT ![thread] = back]} \cup CallbackSend(thread, back)

\* a start that does not look at m_running
StartOpTwice ==
  /\ Alive /\ pc.caller = "idle"
  /\ input.threads < MaxStarts
  /\ \E listened \in BOOLEAN :
       IF ~listened
       THEN /\ lastOp' = [op |-> "start", result |-> FALSE]
            /\ UNCHANGED <<tcp, selector, pc, input>>
       ELSE /\ tcp' = [tcp EXCEPT !.listening = TRUE, !.m_running = TRUE,
                                  !.m_thread = "running"]
            /\ selector' = [selector EXCEPT !.registered = @ \cup {ListenerKey}]
            /\ pc' = [pc EXCEPT !.server = "loop"]
            /\ input' = [input EXCEPT !.threads = @ + 1]
            /\ lastOp' = [op |-> "start", result |-> TRUE]
  /\ UNCHANGED out
  /\ ServerRest

\* TcpServer::start; listened is the outcome of m_listener.listen
StartOp ==
  /\ Alive /\ pc.caller = "idle"
  /\ tcp.m_running \/ input.threads < MaxStarts
  /\ \E listened \in BOOLEAN :
       IF tcp.m_running \/ ~listened
       THEN /\ lastOp' = [op |-> "start", result |-> FALSE]
            /\ UNCHANGED <<tcp, selector, pc, input>>
       ELSE /\ tcp' = [tcp EXCEPT !.listening = TRUE, !.m_running = TRUE,
                                  !.m_thread = "running"]
            /\ selector' = [selector EXCEPT !.registered = @ \cup {ListenerKey}]
            /\ pc' = [pc EXCEPT !.server = "loop"]
            /\ input' = [input EXCEPT !.threads = @ + 1]
            /\ lastOp' = [op |-> "start", result |-> TRUE]
  /\ UNCHANGED out
  /\ ServerRest

\* TcpServer::stop up to the join: a stopped server returns at once
StopOp ==
  /\ Alive /\ pc.caller = "idle"
  /\ IF ~tcp.m_running
     THEN /\ lastOp' = [op |-> "stop", result |-> FALSE]
          /\ UNCHANGED <<tcp, pc>>
     ELSE /\ tcp' = [tcp EXCEPT !.m_running = FALSE]
          /\ pc' = [pc EXCEPT !.caller = "join"]
          /\ lastOp' = [op |-> "stopping", result |-> FALSE]
  /\ UNCHANGED <<selector, input, out>>
  /\ ServerRest

\* a stop that starts the ids again
StopJoinResetsIds ==
  /\ Alive /\ pc.caller = "join"
  /\ tcp.m_thread = "finished" /\ tcp.m_mutex = "free"
  /\ tcp' = [tcp EXCEPT !.m_thread = "none", !.m_clients = {},
                        !.listening = FALSE, !.m_nextClientId = 1]
  /\ selector' = [selector EXCEPT
                    !.registered = (@ \ tcp.m_clients) \ {ListenerKey},
                    !.ready      = (@ \ tcp.m_clients) \ {ListenerKey}]
  /\ pc' = [pc EXCEPT !.caller = "idle"]
  /\ lastOp' = [op |-> "stop", result |-> TRUE]
  /\ UNCHANGED <<input, out>>
  /\ ServerRest

\* TcpServer::stop from the join on: the thread has ended; under the lock
\* the clients and the listener leave the selector, the listener is closed
StopJoin ==
  /\ Alive /\ pc.caller = "join"
  /\ tcp.m_thread = "finished" /\ tcp.m_mutex = "free"
  /\ tcp' = [tcp EXCEPT !.m_thread = "none", !.m_clients = {},
                        !.listening = FALSE]
  /\ selector' = [selector EXCEPT
                    !.registered = (@ \ tcp.m_clients) \ {ListenerKey},
                    !.ready      = (@ \ tcp.m_clients) \ {ListenerKey}]
  /\ pc' = [pc EXCEPT !.caller = "idle"]
  /\ lastOp' = [op |-> "stop", result |-> TRUE]
  /\ UNCHANGED <<input, out>>
  /\ ServerRest

\* TcpServer::send from the caller's thread
CallerSend ==
  /\ Alive /\ pc.caller = "idle" /\ tcp.m_mutex = "free"
  /\ \E id \in 1..MaxClients : \E sent \in BOOLEAN :
       lastOp' = [op |-> "send", result |-> id \in tcp.m_clients /\ sent]
  /\ UNCHANGED <<tcp, selector, pc, input, out>>
  /\ ServerRest

\* TcpServer::disconnect from the caller's thread, up to the callback
CallerDisconnect ==
  /\ Alive /\ pc.caller = "idle" /\ tcp.m_mutex = "free"
  /\ \E id \in 1..MaxClients :
       IF id \in tcp.m_clients
       THEN /\ tcp' = [tcp EXCEPT !.m_clients = @ \ {id},
                                  !.m_mutex = "caller"]
            /\ selector' = [selector EXCEPT !.registered = @ \ {id},
                                            !.ready = @ \ {id}]
            /\ pc' = [pc EXCEPT !.caller = "onDisconnection"]
            /\ lastOp' = [op |-> "disconnecting", result |-> FALSE,
                           id |-> id]
       ELSE /\ lastOp' = [op |-> "disconnect", result |-> FALSE]
            /\ UNCHANGED <<tcp, selector, pc>>
  /\ UNCHANGED <<input, out>>
  /\ ServerRest

\* m_onDisconnection(clientId), called by disconnect under its lock
CallerDisconnectionCallback ==
  /\ pc.caller = "onDisconnection"
  /\ pc' \in Callback("caller", "unlock")
  /\ input' = [input EXCEPT !.disconnections[lastOp.id] = @ + 1]
  /\ UNCHANGED <<tcp, selector, out, lastOp>>
  /\ ServerRest

\* the return of disconnect
CallerDisconnectReturn ==
  /\ pc.caller = "unlock"
  /\ tcp' = [tcp EXCEPT !.m_mutex = "free"]
  /\ pc' = [pc EXCEPT !.caller = "idle"]
  /\ lastOp' = [op |-> "disconnect", result |-> TRUE]
  /\ UNCHANGED <<selector, input, out>>
  /\ ServerRest

\* serverLoop: while (m_running)
LoopStep ==
  /\ pc.server = "loop"
  /\ IF tcp.m_running
     THEN pc' = [pc EXCEPT !.server = "wait"] /\ UNCHANGED tcp
     ELSE /\ pc' = [pc EXCEPT !.server = "done"]
          /\ tcp' = [tcp EXCEPT !.m_thread = "finished"]
  /\ UNCHANGED <<selector, input, out, lastOp>>
  /\ ServerRest

\* m_selector.wait(kTimeout): some registered sockets are readable, or none
WaitStep ==
  /\ pc.server = "wait"
  /\ \E readable \in SUBSET selector.registered :
       /\ selector' = wait(selector, readable).sel
       /\ pc' = [pc EXCEPT !.server =
                   IF wait(selector, readable).result THEN "accept" ELSE "loop"]
  /\ UNCHANGED <<tcp, input, out, lastOp>>
  /\ ServerRest

\* if the listener is ready, m_listener.accept(client); on Done the next
\* id is taken
AcceptStep ==
  /\ pc.server = "accept"
  /\ \E accepted \in BOOLEAN :
       IF ListenerKey \in selector.ready /\ accepted
          /\ tcp.m_nextClientId <= MaxClients
       THEN /\ out' = [out EXCEPT !.id = tcp.m_nextClientId]
            /\ tcp' = [tcp EXCEPT !.m_nextClientId = @ + 1]
            /\ input' = [input EXCEPT !.assigned = Append(@, tcp.m_nextClientId)]
            /\ pc' = [pc EXCEPT !.server = "insert"]
       ELSE /\ pc' = [pc EXCEPT !.server = "lock"]
            /\ UNCHANGED <<tcp, input, out>>
  /\ UNCHANGED <<selector, lastOp>>
  /\ ServerRest

\* under the lock: m_selector.add(client); m_clients[clientId] = ...
InsertStep ==
  /\ pc.server = "insert" /\ tcp.m_mutex = "free"
  /\ selector' = [selector EXCEPT !.registered = @ \cup {out.id}]
  /\ tcp' = [tcp EXCEPT !.m_clients = @ \cup {out.id}]
  /\ pc' = [pc EXCEPT !.server = "onConnection"]
  /\ UNCHANGED <<input, out, lastOp>>
  /\ ServerRest

\* m_onConnection(clientId, address), called without the lock: the
\* callback returns, having called send or not
ConnectionCallback ==
  /\ pc.server = "onConnection"
  /\ pc' \in Callback("server", "lock")
  /\ input' = [input EXCEPT !.connected = @ \cup {out.id}]
  /\ UNCHANGED <<tcp, selector, out, lastOp>>
  /\ ServerRest

\* the lock of the scan of m_clients
ScanLock ==
  /\ pc.server = "lock" /\ tcp.m_mutex = "free"
  /\ tcp' = [tcp EXCEPT !.m_mutex = "server"]
  /\ out' = [out EXCEPT !.toVisit = tcp.m_clients, !.toRemove = {}]
  /\ pc' = [pc EXCEPT !.server = "scan"]
  /\ UNCHANGED <<selector, input, lastOp>>
  /\ ServerRest

\* one client of the scan: if it is ready it is received from; at the end
\* of the scan the lock is released
ScanStep ==
  /\ pc.server = "scan"
  /\ IF out.toVisit = {}
     THEN /\ tcp' = [tcp EXCEPT !.m_mutex = "free"]
          /\ pc' = [pc EXCEPT !.server = "remove"]
          /\ UNCHANGED out
     ELSE \E id \in out.toVisit :
          \E status \in {"Done", "Disconnected", "NotReady", "Error"} :
            /\ UNCHANGED tcp
            /\ IF id \notin selector.ready
                  \/ status \in {"NotReady", "Error"}
               THEN /\ out' = [out EXCEPT !.toVisit = @ \ {id}]
                    /\ UNCHANGED pc
               ELSE IF status = "Done"
               THEN /\ out' = [out EXCEPT !.toVisit = @ \ {id}, !.id = id]
                    /\ pc' = [pc EXCEPT !.server = "onMessage"]
               ELSE /\ out' = [out EXCEPT !.toVisit = @ \ {id},
                                          !.toRemove = @ \cup {id}]
                    /\ UNCHANGED pc
  /\ UNCHANGED <<selector, input, lastOp>>
  /\ ServerRest

\* m_onMessage(id, data, received), called under the lock of the scan
MessageCallback ==
  /\ pc.server = "onMessage"
  /\ pc' \in Callback("server", "scan")
  /\ UNCHANGED <<tcp, selector, input, out, lastOp>>
  /\ ServerRest

\* the removal of one disconnected client, under its own lock, which is
\* held while m_onDisconnection runs
RemoveStep ==
  /\ pc.server = "remove"
  /\ IF out.toRemove = {}
     THEN /\ pc' = [pc EXCEPT !.server = "loop"]
          /\ UNCHANGED <<tcp, selector, out>>
     ELSE /\ tcp.m_mutex = "free"
          /\ \E id \in out.toRemove :
               /\ tcp' = [tcp EXCEPT !.m_mutex = "server",
                                     !.m_clients = @ \ {id}]
               /\ selector' = IF id \in tcp.m_clients
                              THEN [selector EXCEPT !.registered = @ \ {id},
                                                    !.ready = @ \ {id}]
                              ELSE selector
               /\ out' = [out EXCEPT !.toRemove = @ \ {id}, !.id = id]
               /\ pc' = [pc EXCEPT !.server = "onDisconnection"]
  /\ UNCHANGED <<input, lastOp>>
  /\ ServerRest

\* m_onDisconnection(id), called under the lock of the removal
DisconnectionCallback ==
  /\ pc.server = "onDisconnection"
  /\ pc' \in Callback("server", "unlock")
  /\ input' = [input EXCEPT !.disconnections[out.id] = @ + 1]
  /\ UNCHANGED <<tcp, selector, out, lastOp>>
  /\ ServerRest

\* the end of the lock of the removal
RemoveUnlock ==
  /\ pc.server = "unlock"
  /\ tcp' = [tcp EXCEPT !.m_mutex = "free"]
  /\ pc' = [pc EXCEPT !.server = "remove"]
  /\ UNCHANGED <<selector, input, out, lastOp>>
  /\ ServerRest

ServerInit ==
  /\ tcp = NewTcpServer
  /\ selector = NewSelector
  /\ pc = [caller |-> "idle", server |-> "none"]
  /\ out = NewLocals
  /\ input = [assigned |-> <<>>, threads |-> 0, connected |-> {},
              disconnections |-> [id \in 1..MaxClients |-> 0]]
  /\ lastOp = [op |-> "none", result |-> FALSE]
  /\ sockets = SocketsIdle
  /\ os = OsIdle
  /\ host = "little"
  /\ sizeW = 8
  /\ packet = NewPacket
  /\ net = NetIdle

ServerNext ==
  \/ StartOp \/ StopOp \/ StopJoin \/ CallerSend \/ CallerDisconnect
  \/ CallerDisconnectionCallback \/ CallerDisconnectReturn
  \/ LoopStep \/ WaitStep \/ AcceptStep \/ InsertStep \/ ConnectionCallback
  \/ ScanLock \/ ScanStep \/ MessageCallback \/ RemoveStep
  \/ DisconnectionCallback \/ RemoveUnlock

SpecServer == ServerInit /\ [][ServerNext]_vars

\* C23: a message callback that calls send on its server returns: the
\* server thread, having entered m_onMessage, goes on with the scan of the
\* clients; it never waits for the mutex it holds itself.
C23_MessageCallbackReturns ==
  [][pc.server = "onMessage" /\ pc'.server # "onMessage"
       => pc'.server = "scan"]_vars

\* the server thread waits for m_mutex, which it holds: it waits for ever
SelfDeadlock == pc.server = "sendLock" /\ tcp.m_mutex = "server"

\* the callbacks under a lock are the only way to a thread that waits for
\* itself, and m_onConnection, called without the lock, always returns
OnlyLockedCallbacksBlock ==
  [][/\ pc.server = "onConnection" /\ pc'.server # "onConnection"
          => pc'.server = "lock" \/ pc.caller = "onDisconnection"
     /\ pc'.server \in {"sendLock", "aborted"} /\ pc.server # pc'.server
          => \/ pc.server \in {"onMessage", "onDisconnection"}
                /\ tcp.m_mutex = "server"
             \/ pc.caller = "onDisconnection" /\ tcp.m_mutex = "caller"]_vars

\* the server is stopped: no thread, no client, no listener
Stopped ==
  /\ ~tcp.m_running
  /\ tcp.m_thread = "none" /\ pc.server \in {"none", "done"}
  /\ tcp.m_clients = {}
  /\ ~tcp.listening
  /\ ListenerKey \notin selector.registered

C28_ClientIdsAreNeverReused ==
  /\ [](/\ \A k \in 1..Len(input.assigned) : input.assigned[k] = k
        /\ tcp.m_nextClientId = Len(input.assigned) + 1
        /\ \A id \in tcp.m_clients : id < tcp.m_nextClientId
        /\ selector.registered \subseteq tcp.m_clients \cup {ListenerKey})
  /\ [][tcp'.m_nextClientId >= tcp.m_nextClientId]_vars

\* the second thread of the server has accepted a client after the client
\* with the id 1 has left the table: the new client has the id 2
C28_Witness ==
  /\ input.threads = 2
  /\ input.assigned = <<1, 2>>
  /\ tcp.m_clients = {2}
  /\ pc.server = "onConnection"

(***************************************************************************)
(* TcpClient.  The caller's thread calls connect, disconnect, send and     *)
(* setAutoReconnect; the receive thread runs receiveLoop and, in it,       *)
(* tryReconnect.  tcp holds the members of the TcpClient, net the          *)
(* connection of m_socket and its peer, a server that answers a request    *)
(* when it has received it and may close the connection, pc the place of   *)
(* each thread.  TcpClient never calls setBlocking: m_socket is blocking,  *)
(* and a receive with nothing to read does not return.                     *)
(***************************************************************************)
MaxPending == 1

NewTcpClient ==
  [m_connected |-> FALSE, m_running |-> FALSE, m_autoReconnect |-> FALSE,
   m_mutex |-> "free", m_thread |-> "none", m_serverPort |-> 0]

NoConnection ==
  [socket |-> "closed", peer |-> "none", inbound |-> 0, requests |-> 0,
   port |-> 0]

\* TcpSocket::connect has returned Done
Connection(port) ==
  [socket |-> "connected", peer |-> "open", inbound |-> 0, requests |-> 0,
   port |-> port]

\* TcpSocket::disconnect: the handle is closed
Disconnected(n) == [n EXCEPT !.socket = "closed"]

ClientRest == UNCHANGED <<packet, host, sizeW, sockets, os, selector, out, input>>

\* what the steps that make or announce a connection leave alone; input
\* says which function made the connection of m_socket and whether
\* m_onConnected has been called for it
ClientFrame == UNCHANGED <<packet, host, sizeW, sockets, os, selector, out>>

NoneMade == [by |-> "none", announced |-> FALSE]

Made(by) == [by |-> by, announced |-> FALSE]

\* m_onConnected() is called by the function `by`: the connection is
\* announced if it is the one this function made
Announced(by) ==
  IF input.by = by THEN [input EXCEPT !.announced = TRUE] ELSE input

ClientAlive == pc.caller # "aborted"

ClientAborted == [caller |-> "aborted", receiver |-> "aborted",
                  then |-> "return", port |-> 0]

\* the body of TcpClient::disconnect up to the join, and where the caller
\* goes on: at the join if there is a thread to join, behind it otherwise
DisconnectStart(then, port) ==
  /\ tcp' = [tcp EXCEPT !.m_running = FALSE, !.m_connected = FALSE]
  /\ net' = Disconnected(net)
  /\ pc' = [pc EXCEPT !.caller = IF tcp.m_thread # "none" THEN "join"
                                 ELSE IF then = "return" THEN "idle" ELSE then,
                      !.then = then, !.port = port]
  /\ lastOp' = IF tcp.m_thread = "none" /\ then = "return"
               THEN [op |-> "disconnect", result |-> TRUE]
               ELSE [op |-> "disconnecting", result |-> FALSE]

\* TcpClient::connect(address, port, timeout), its first lines: a connected
\* client is disconnected first
ClientConnect ==
  /\ ClientAlive /\ pc.caller = "idle"
  /\ \E port \in Ports :
       IF tcp.m_connected
       THEN DisconnectStart("connecting", port)
       ELSE /\ pc' = [pc EXCEPT !.caller = "connecting", !.port = port]
            /\ lastOp' = [op |-> "connecting", result |-> FALSE]
            /\ UNCHANGED <<tcp, net>>
  /\ ClientRest

\* TcpClient::connect from the saving of the address to the start of the
\* receive thread; connected is the outcome of m_socket.connect.  A thread
\* object that is still joinable cannot be assigned to: std::terminate
\* ends the process.
ClientConnectStep ==
  /\ ClientAlive /\ pc.caller = "connecting"
  /\ \E connected \in BOOLEAN :
       IF ~connected
       THEN /\ tcp' = [tcp EXCEPT !.m_serverPort = pc.port]
            /\ net' = Disconnected(net)
            /\ pc' = [pc EXCEPT !.caller = "idle"]
            /\ lastOp' = [op |-> "connect", result |-> FALSE]
            /\ UNCHANGED input
       ELSE IF tcp.m_thread # "none"
       THEN /\ tcp' = [tcp EXCEPT !.m_serverPort = pc.port,
                                  !.m_connected = TRUE, !.m_running = TRUE]
            /\ net' = Connection(pc.port)
            /\ pc' = ClientAborted
            /\ input' = Made("connect")
            /\ UNCHANGED lastOp
       ELSE /\ tcp' = [tcp EXCEPT !.m_serverPort = pc.port,
                                  !.m_connected = TRUE, !.m_running = TRUE,
                                  !.m_thread = "running"]
            /\ net' = Connection(pc.port)
            /\ pc' = [pc EXCEPT !.caller = "onConnected", !.receiver = "loop"]
            /\ input' = Made("connect")
            /\ UNCHANGED lastOp
  /\ ClientFrame

\* m_onConnected(), called by connect after the thread has been started,
\* and the return of connect
ClientOnConnected ==
  /\ ClientAlive /\ pc.caller = "onConnected"
  /\ input' = Announced("connect")
  /\ pc' = [pc EXCEPT !.caller = "idle"]
  /\ lastOp' = [op |-> "connect", result |-> TRUE]
  /\ UNCHANGED <<tcp, net>>
  /\ ClientFrame

\* TcpClient::disconnect up to the join
ClientDisconnect ==
  /\ ClientAlive /\ pc.caller = "idle"
  /\ DisconnectStart("return", 0)
  /\ ClientRest

\* the join of TcpClient::disconnect and its return
ClientJoin ==
  /\ ClientAlive /\ pc.caller = "join"
  /\ tcp.m_thread = "finished"
  /\ tcp' = [tcp EXCEPT !.m_thread = "none"]
  /\ pc' = [pc EXCEPT !.caller = IF pc.then = "return" THEN "idle" ELSE pc.then]
  /\ lastOp' = IF pc.then = "return"
               THEN [op |-> "disconnect", result |-> TRUE]
               ELSE lastOp
  /\ UNCHANGED net
  /\ ClientRest

\* TcpClient::send, the test of m_connected
ClientSend ==
  /\ ClientAlive /\ pc.caller = "idle"
  /\ IF ~tcp.m_connected
     THEN lastOp' = [op |-> "send", result |-> FALSE] /\ UNCHANGED pc
     ELSE /\ pc' = [pc EXCEPT !.caller = "sendLock"]
          /\ lastOp' = [op |-> "sending", result |-> FALSE]
  /\ UNCHANGED <<tcp, net>>
  /\ ClientRest

\* TcpClient::send from the lock on: m_socket.send under m_mutex; the
\* server takes MaxPending requests before it answers one
ClientSendLocked ==
  /\ ClientAlive /\ pc.caller = "sendLock"
  /\ tcp.m_mutex = "free"
  /\ IF net.socket = "connected" /\ net.peer = "open"
     THEN /\ net.requests < MaxPending
          /\ net' = [net EXCEPT !.requests = @ + 1]
          /\ lastOp' = [op |-> "send", result |-> TRUE]
     ELSE /\ lastOp' = [op |-> "send", result |-> FALSE]
          /\ UNCHANGED net
  /\ pc' = [pc EXCEPT !.caller = "idle"]
  /\ UNCHANGED tcp
  /\ ClientRest

\* TcpClient::setAutoReconnect
ClientSetAutoReconnect ==
  /\ ClientAlive /\ pc.caller = "idle"
  /\ \E enable \in BOOLEAN :
       /\ tcp.m_autoReconnect # enable
       /\ tcp' = [tcp EXCEPT !.m_autoReconnect = enable]
  /\ lastOp' = [op |-> "setAutoReconnect", result |-> TRUE]
  /\ UNCHANGED <<net, pc>>
  /\ ClientRest

\* receiveLoop: while (m_running)
ReceiverLoop ==
  /\ pc.receiver = "loop"
  /\ IF tcp.m_running
     THEN pc' = [pc EXCEPT !.receiver = "lock"] /\ UNCHANGED tcp
     ELSE /\ pc' = [pc EXCEPT !.receiver = "done"]
          /\ tcp' = [tcp EXCEPT !.m_thread = "finished"]
  /\ UNCHANGED <<net, lastOp>>
  /\ ClientRest

\* the lock around m_socket.receive
ReceiverLock ==
  /\ pc.receiver = "lock" /\ tcp.m_mutex = "free"
  /\ tcp' = [tcp EXCEPT !.m_mutex = "receiver"]
  /\ pc' = [pc EXCEPT !.receiver = "receive"]
  /\ UNCHANGED <<net, lastOp>>
  /\ ClientRest

\* what m_socket.receive returns, and when: with bytes to read Done, with
\* the connection closed by the peer Disconnected, with nothing to read
\* nothing; on a handle closed by disconnect() from the other thread Error
\* or Disconnected, if it returns
ReceiveStatus(n) ==
  IF n.socket = "closed" THEN {"Error", "Disconnected"}
  ELSE IF n.inbound > 0 THEN {"Done"}
  ELSE IF n.peer = "closed" THEN {"Disconnected"}
  ELSE {}

\* the receive thread is in m_socket.receive, under the lock, and the call
\* cannot return
ReceiveBlocked ==
  /\ pc.receiver = "receive" /\ tcp.m_mutex = "receiver"
  /\ ReceiveStatus(net) = {}

\* m_socket.receive returns, the lock ends and the status is looked at
ReceiverReceive ==
  /\ pc.receiver = "receive"
  /\ \E status \in ReceiveStatus(net) :
       /\ net' = IF status = "Done" THEN [net EXCEPT !.inbound = @ - 1] ELSE net
       /\ tcp' = [tcp EXCEPT
                    !.m_mutex = "free",
                    !.m_connected = IF status = "Disconnected" THEN FALSE ELSE @,
                    !.m_thread = IF status = "Error" THEN "finished" ELSE @]
       /\ pc' = [pc EXCEPT !.receiver =
                   IF status = "Done" THEN "onMessage"
                   ELSE IF status = "Disconnected" THEN "onDisconnected"
                   ELSE "done"]
  /\ UNCHANGED lastOp
  /\ ClientRest

\* m_onMessage(buffer.data(), received)
ReceiverOnMessage ==
  /\ pc.receiver = "onMessage"
  /\ pc' = [pc EXCEPT !.receiver = "loop"]
  /\ UNCHANGED <<tcp, net, lastOp>>
  /\ ClientRest

\* m_onDisconnected(), then tryReconnect or the end of the loop
ReceiverOnDisconnected ==
  /\ pc.receiver = "onDisconnected"
  /\ IF tcp.m_autoReconnect /\ tcp.m_running
     THEN pc' = [pc EXCEPT !.receiver = "reconnect"] /\ UNCHANGED tcp
     ELSE /\ pc' = [pc EXCEPT !.receiver = "done"]
          /\ tcp' = [tcp EXCEPT !.m_thread = "finished"]
  /\ UNCHANGED <<net, lastOp>>
  /\ ClientRest

\* tryReconnect: while (m_running && m_autoReconnect && !m_connected)
ReconnectLoop ==
  /\ pc.receiver = "reconnect"
  /\ pc' = [pc EXCEPT !.receiver =
              IF tcp.m_running /\ tcp.m_autoReconnect /\ ~tcp.m_connected
              THEN "sleep" ELSE "loop"]
  /\ UNCHANGED <<tcp, net, lastOp>>
  /\ ClientRest

\* sleep_for(m_reconnectInterval); if (!m_running) break;
ReconnectSleep ==
  /\ pc.receiver = "sleep"
  /\ pc' = [pc EXCEPT !.receiver = IF tcp.m_running THEN "attempt" ELSE "loop"]
  /\ UNCHANGED <<tcp, net, lastOp>>
  /\ ClientRest

\* an attempt that leaves m_connected alone
ReconnectAttemptForgets ==
  /\ pc.receiver = "attempt"
  /\ \E connected \in BOOLEAN :
       IF connected
       THEN /\ net' = Connection(tcp.m_serverPort)
            /\ pc' = [pc EXCEPT !.receiver = "onConnected"]
            /\ input' = Made("tryReconnect")
       ELSE /\ net' = Disconnected(net)
            /\ pc' = [pc EXCEPT !.receiver = "reconnect"]
            /\ UNCHANGED input
  /\ UNCHANGED <<tcp, lastOp>>
  /\ ClientFrame

\* m_socket = TcpSocket(); m_socket.connect(saved address, saved port,
\* m_timeout); on Done m_connected = true
ReconnectAttempt ==
  /\ pc.receiver = "attempt"
  /\ \E connected \in BOOLEAN :
       IF connected
       THEN /\ net' = Connection(tcp.m_serverPort)
            /\ tcp' = [tcp EXCEPT !.m_connected = TRUE]
            /\ pc' = [pc EXCEPT !.receiver = "onConnected"]
            /\ input' = Made("tryReconnect")
       ELSE /\ net' = Disconnected(net)
            /\ pc' = [pc EXCEPT !.receiver = "reconnect"]
            /\ UNCHANGED <<tcp, input>>
  /\ UNCHANGED lastOp
  /\ ClientFrame

\* m_onConnected(); break; and tryReconnect returns into receiveLoop
ReconnectOnConnected ==
  /\ pc.receiver = "onConnected"
  /\ pc' = [pc EXCEPT !.receiver = "loop"]
  /\ input' = Announced("tryReconnect")
  /\ UNCHANGED <<tcp, net, lastOp>>
  /\ ClientFrame

\* the server answers a request it has received
ServerReply ==
  /\ ClientAlive
  /\ net.socket = "connected" /\ net.peer = "open"
  /\ net.requests > 0 /\ net.inbound < MaxPending
  /\ net' = [net EXCEPT !.requests = @ - 1, !.inbound = @ + 1]
  /\ UNCHANGED <<tcp, pc, lastOp>>
  /\ ClientRest

\* the server closes the connection
ServerClose ==
  /\ ClientAlive
  /\ net.socket = "connected" /\ net.peer = "open"
  /\ net' = [net EXCEPT !.peer = "closed"]
  /\ UNCHANGED <<tcp, pc, lastOp>>
  /\ ClientRest

ClientInit ==
  /\ tcp = NewTcpClient
  /\ net = NoConnection
  /\ pc = [caller |-> "idle", receiver |-> "none", then |-> "return",
           port |-> 0]
  /\ lastOp = [op |-> "none", result |-> FALSE]
  /\ selector = SelectorIdle
  /\ out = <<>>
  /\ input = NoneMade
  /\ sockets = SocketsIdle
  /\ os = OsIdle
  /\ host = "little"
  /\ sizeW = 8
  /\ packet = NewPacket

ClientNext ==
  \/ ClientConnect \/ ClientConnectStep \/ ClientOnConnected
  \/ ClientDisconnect \/ ClientJoin
  \/ ClientSend \/ ClientSendLocked \/ ClientSetAutoReconnect
  \/ ReceiverLoop \/ ReceiverLock \/ ReceiverReceive \/ ReceiverOnMessage
  \/ ReceiverOnDisconnected \/ ReconnectLoop \/ ReconnectSleep
  \/ ReconnectAttempt \/ ReconnectOnConnected
  \/ ServerReply \/ ServerClose

SpecClient == ClientInit /\ [][ClientNext]_vars

\* the caller waits in send for m_mutex, which the receive thread holds in
\* a receive that cannot return: the connection is open, nothing is on its
\* way to the client, and the server has no request to answer
SendWaitsForReceive ==
  /\ pc.caller = "sendLock"
  /\ ReceiveBlocked
  /\ net.socket = "connected" /\ net.peer = "open" /\ net.requests = 0

\* C24: send on a connected client returns even when the server sends
\* nothing before it has received the client's message: the receive loop
\* never keeps send from taking m_mutex for ever.
C24_SendGetsTheMutex == ~SendWaitsForReceive

\* from there neither thread moves: the state ends only when the server
\* closes the connection
SendWaitsUntilTheServerCloses ==
  [][SendWaitsForReceive => SendWaitsForReceive' \/ net'.peer = "closed"]_vars

\* C26: when disconnect has returned, isConnected is false, the receive
\* thread has ended and is joined, and no callback runs any more, also
\* when a reconnection attempt was under way at the call.
C26_DisconnectLeavesNothingRunning ==
  lastOp.op = "disconnect"
    => /\ ~tcp.m_connected
       /\ tcp.m_thread = "none"
       /\ pc.receiver \in {"none", "done"}

\* what is right of it: the thread has ended and is joined, m_running is
\* false
DisconnectJoinsTheThread ==
  lastOp.op = "disconnect"
    => /\ ~tcp.m_running
       /\ tcp.m_thread = "none"
       /\ pc.receiver \in {"none", "done"}

\* C27: a Disconnected seen by the receive loop clears m_connected and is
\* followed by one m_onDisconnected; with auto-reconnect on, tryReconnect
\* then sleeps one interval before each attempt, connects to the saved
\* port, and goes on until an attempt succeeds, auto-reconnect is off or
\* m_running is false; a successful attempt sets m_connected, calls
\* m_onConnected and returns into receiveLoop on the same thread.
C27_ReconnectsUntilConnected ==
  [][/\ pc'.receiver = "onDisconnected" /\ pc.receiver # "onDisconnected"
          => pc.receiver = "receive" /\ ~tcp'.m_connected
     /\ pc.receiver = "onDisconnected"
        /\ pc'.receiver \notin {"onDisconnected", "aborted"}
          => IF tcp.m_autoReconnect /\ tcp.m_running
             THEN pc'.receiver = "reconnect"
             ELSE pc'.receiver = "done"
     /\ pc'.receiver = "reconnect" /\ pc.receiver # "reconnect"
          => pc.receiver \in {"onDisconnected", "attempt"}
     /\ pc'.receiver = "sleep" /\ pc.receiver # "sleep"
          => /\ pc.receiver = "reconnect"
             /\ tcp.m_running /\ tcp.m_autoReconnect /\ ~tcp.m_connected
     /\ pc'.receiver = "attempt" /\ pc.receiver # "attempt"
          => pc.receiver = "sleep" /\ tcp.m_running
     /\ pc.receiver = "attempt" /\ pc'.receiver \notin {"attempt", "aborted"}
          => IF pc'.receiver = "onConnected"
             THEN tcp'.m_connected /\ net' = Connection(tcp.m_serverPort)
             ELSE pc'.receiver = "reconnect"
                  /\ tcp'.m_connected = tcp.m_connected
     /\ pc'.receiver = "onConnected" /\ pc.receiver # "onConnected"
          => pc.receiver = "attempt"
     /\ pc.receiver = "onConnected"
        /\ pc'.receiver \notin {"onConnected", "aborted"}
          => pc'.receiver = "loop" /\ tcp'.m_thread = "running"
     /\ pc.receiver = "reconnect" /\ pc'.receiver = "loop"
          => tcp.m_connected \/ ~tcp.m_autoReconnect \/ ~tcp.m_running
    ]_vars

\* a reconnection has succeeded: the receive thread is in m_onConnected,
\* connected to the saved port
C27_Witness ==
  /\ pc.receiver = "onConnected"
  /\ tcp.m_connected /\ tcp.m_running /\ tcp.m_autoReconnect
  /\ net.socket = "connected" /\ net.port = tcp.m_serverPort

(***************************************************************************)
(* IpAddress.  An address object is its two members: m_address, a 32-bit   *)
(* integer (its digits, lowest first) that holds the address in network    *)
(* byte order, and m_valid.  A string is the sequence of its characters.   *)
(***************************************************************************)
\* the bytes that are tried at each of the four places: one-, two- and
\* three-digit bytes, a first byte with the top bit set
IpBytes == <<{0, 200}, {0, 10}, {0, 1}, {0, 1, 200}>>

\* IpAddress() = default
DefaultIpAddress == [m_address |-> Zeros(4), m_valid |-> FALSE]

\* a uint8_t promoted to a 32-bit integer
Promote(b) == <<b, 0, 0, 0>>

\* an address that stores the integer in host byte order
IpAddressNoSwap(b0, b1, b2, b3) ==
  [m_address |-> Or(Or(Or(ShiftLeft(Promote(b0), 3), ShiftLeft(Promote(b1), 2)),
                       ShiftLeft(Promote(b2), 1)), Promote(b3)),
   m_valid |-> TRUE]

\* IpAddress(byte0, byte1, byte2, byte3)
IpAddress(b0, b1, b2, b3) ==
  [m_address |-> htonl(Or(Or(Or(ShiftLeft(Promote(b0), 3),
                                ShiftLeft(Promote(b1), 2)),
                             ShiftLeft(Promote(b2), 1)), Promote(b3))),
   m_valid |-> TRUE]

DigitChar(n) == <<"0", "1", "2", "3", "4", "5", "6", "7", "8", "9">>[n + 1]

\* a byte printed in decimal, without leading zeros
RECURSIVE Decimal(_)
Decimal(n) ==
  IF n < 10 THEN <<DigitChar(n)>>
  ELSE Decimal(n \div 10) \o <<DigitChar(n % 10)>>

\* inet_ntop(AF_INET, ...): the four bytes of the in_addr as they lie in
\* memory, in decimal, with dots between them
inet_ntop(bytes) ==
  Decimal(bytes[1]) \o <<".">> \o Decimal(bytes[2]) \o <<".">>
    \o Decimal(bytes[3]) \o <<".">> \o Decimal(bytes[4])

\* IpAddress::toString
toString(a) == inet_ntop(ObjectBytes(a.m_address))

\* IpAddress::toInteger
toInteger(a) == ntohl(a.m_address)

\* a < that leaves m_valid out
operatorLessIgnoresValidity(left, right) == Less(left.m_address, right.m_address)

\* operator<: std::pair(m_valid, m_address) compared, false before true
operatorLess(left, right) ==
  \/ ~left.m_valid /\ right.m_valid
  \/ left.m_valid = right.m_valid /\ Less(left.m_address, right.m_address)

\* operator==
operatorEqual(left, right) ==
  ~operatorLess(left, right) /\ ~operatorLess(right, left)

IpRest == UNCHANGED <<packet, host, sizeW, pc, tcp, net, sockets, os, selector, lastOp>>

\* what the program sees of the two addresses it holds
Observed(left, right) ==
  [string |-> toString(right), integer |-> toInteger(right),
   less |-> operatorLess(left, right), greater |-> operatorLess(right, left),
   equal |-> operatorEqual(left, right)]

\* a new address is made from four bytes and compared with the one before
IpFromBytesOp ==
  /\ \E b0 \in IpBytes[1] : \E b1 \in IpBytes[2] : \E b2 \in IpBytes[3] :
     \E b3 \in IpBytes[4] :
       /\ input' = [left |-> input.right, right |-> IpAddress(b0, b1, b2, b3),
                    bytes |-> <<b0, b1, b2, b3>>]
       /\ out' = Observed(input.right, IpAddress(b0, b1, b2, b3))
  /\ IpRest

\* a default address is made and compared with the one before
IpDefaultOp ==
  /\ input' = [left |-> input.right, right |-> DefaultIpAddress,
               bytes |-> <<>>]
  /\ out' = Observed(input.right, DefaultIpAddress)
  /\ IpRest

IpInit ==
  /\ host \in {"little", "big"}
  /\ input = [left |-> DefaultIpAddress, right |-> DefaultIpAddress,
              bytes |-> <<>>]
  /\ out = Observed(DefaultIpAddress, DefaultIpAddress)
  /\ lastOp = [op |-> "none"]
  /\ pc = "address"
  /\ packet = NewPacket
  /\ sizeW = 8
  /\ tcp = TcpIdle
  /\ net = NetIdle
  /\ sockets = SocketsIdle
  /\ os = OsIdle
  /\ selector = SelectorIdle

IpNext == IpFromBytesOp \/ IpDefaultOp

SpecIp == IpInit /\ [][IpNext]_vars

\* a byte in decimal, digit by digit
ByteText(n) ==
  IF n < 10 THEN <<DigitChar(n)>>
  ELSE IF n < 100 THEN <<DigitChar(n \div 10), DigitChar(n % 10)>>
  ELSE <<DigitChar(n \div 100), DigitChar((n \div 10) % 10), DigitChar(n % 10)>>

\* C29: IpAddress(b0, b1, b2, b3).toString() is "b0.b1.b2.b3" and
\* toInteger() is b0*2^24 + b1*2^16 + b2*2^8 + b3, the integer with the
\* base-256 digits b3, b2, b1, b0 from the lowest up, on a little-endian
\* and on a big-endian host.
C29_BytesGiveStringAndInteger ==
  input.bytes # <<>>
    => LET b == input.bytes
       IN  /\ out.string = ByteText(b[1]) \o <<".">> \o ByteText(b[2]) \o <<".">>
                             \o ByteText(b[3]) \o <<".">> \o ByteText(b[4])
           /\ out.integer = <<b[4], b[3], b[2], b[1]>>

\* the address 200.10.0.1 on a little-endian host: "200.10.0.1"
C29_Witness ==
  /\ host = "little"
  /\ input.bytes = <<200, 10, 0, 1>>
  /\ out.string = <<"2", "0", "0", ".", "1", "0", ".", "0", ".", "1">>
  /\ out.integer = <<1, 0, 10, 200>>

\* the order of two addresses by validity first and then by a value
ByValidityThen(left, right, l, r) ==
  \/ ~left.m_valid /\ right.m_valid
  \/ left.m_valid = right.m_valid /\ Less(l, r)

\* C30 as it is stated: operator< is the order on (validity, toInteger()),
\* and operator== holds exactly when validity and toInteger() are equal.
C30_OrderIsByInteger ==
  /\ out.less = ByValidityThen(input.left, input.right,
                               toInteger(input.left), toInteger(input.right))
  /\ out.equal = (/\ input.left.m_valid = input.right.m_valid
                  /\ toInteger(input.left) = toInteger(input.right))

\* C30, amended: operator< is the order on (validity, m_address), where
\* m_address is the stored integer, the address in network byte order: an
\* invalid address is less than every valid one, operator== holds exactly
\* when validity and toInteger() are equal, exactly one of <, == and >
\* holds, and on a big-endian host, where m_address is toInteger(), the
\* order of two valid addresses is that of their integers.
C30_OrderIsByStoredValue ==
  /\ out.less = ByValidityThen(input.left, input.right,
                               input.left.m_address, input.right.m_address)
  /\ ~input.left.m_valid /\ input.right.m_valid => out.less
  /\ out.equal = (/\ input.left.m_valid = input.right.m_valid
                  /\ toInteger(input.left) = toInteger(input.right))
  /\ (out.less /\ ~out.equal /\ ~out.greater)
       \/ (~out.less /\ out.equal /\ ~out.greater)
       \/ (~out.less /\ ~out.equal /\ out.greater)
  /\ host = "big"
       => out.less = ByValidityThen(input.left, input.right,
                                    toInteger(input.left), toInteger(input.right))

\* 0.0.0.1 and 0.0.1.0 on a little-endian host: 1 is less than 256, and
\* the first address is the greater one
C30_Witness ==
  /\ host = "little"
  /\ input.left = IpAddress(0, 0, 0, 1) /\ input.right = IpAddress(0, 0, 1, 0)
  /\ Less(toInteger(input.left), toInteger(input.right))
  /\ ~out.less /\ out.greater

(***************************************************************************)
(* A packet that is used again: it is sent with send(Packet&), cleared     *)
(* with clear() at any point of the sending, filled with a new payload and *)
(* sent again on a connection that starts with no byte on the wire.       *)
(***************************************************************************)
\* Packet::clear() on the packet that is being sent, has been sent or could
\* not be sent
ClearAfterSendOp ==
  /\ pc \in {"send", "failed", "done"}
  /\ packet' = clear(packet)
  /\ pc' = "cleared"
  /\ UNCHANGED <<out, lastOp, host, sizeW, input, sockets, os, selector, tcp, net>>

\* the cleared packet is filled with the next payload
RefillOp ==
  /\ pc = "cleared"
  /\ \E payload \in Payloads :
       /\ input' = payload
       /\ packet' = append(packet, payload)
  /\ net' = [wire |-> <<>>, status |-> "none", partials |-> 0]
  /\ pc' = "send"
  /\ UNCHANGED <<out, lastOp, host, sizeW, sockets, os, selector, tcp>>

ResendNext == SendCall \/ SendFails \/ ClearAfterSendOp \/ RefillOp

SpecResend == SendInit /\ [][ResendNext]_vars

\* C38: clear() leaves the packet as a freshly constructed one: no data,
\* read cursor 0, send cursor 0, valid; so a packet cleared after a send
\* that was not completed has no send offset left.
C38_ClearGivesAFreshPacket == pc = "cleared" => packet = NewPacket

\* what clear() does reset: the data, the read cursor and the validity
ClearEmptiesThePacket ==
  pc = "cleared" => /\ packet.m_data = <<>>
                    /\ packet.m_readPos = 0
                    /\ packet.m_isValid

\* what the offset that is left does: the bytes that go out for the
\* refilled packet are no longer the first bytes of its frame
RefilledPacketGoesOutWhole ==
  pc \in {"send", "done"} => IsPrefix(net.wire, WireFrame(input))

(***************************************************************************)
(* A std::string is extracted from a packet that holds any bytes, at any   *)
(* read position, valid or not; input is the packet as it was before.      *)
(***************************************************************************)
\* the longest buffer that is tried
MaxBuffer == 7

\* the buffers that are tried: each byte 0 or 2
StringBuffers == UNION {[1..k -> {0, 2}] : k \in 0..MaxBuffer}

StringInit ==
  /\ host \in HostOrders
  /\ sizeW \in SizeWidths
  /\ \E data \in StringBuffers : \E pos \in 0..Len(data) :
     \E valid \in BOOLEAN :
       packet = [m_data |-> data, m_readPos |-> pos, m_sendPos |-> 0,
                 m_isValid |-> valid]
  /\ input = packet
  /\ out = OldValue("string")
  /\ lastOp = NoOp
  /\ pc = "string"
  /\ tcp = TcpIdle
  /\ net = NetIdle
  /\ sockets = SocketsIdle /\ os = OsIdle /\ selector = SelectorIdle

\* packet >> str
StringExtractOp ==
  /\ pc = "string"
  /\ LET r == Extract(packet, "string", out)
     IN  packet' = r.p /\ out' = r.data
  /\ pc' = "extracted"
  /\ UNCHANGED <<lastOp, host, sizeW, input, tcp, net, sockets, os, selector>>

\* the caller goes on with the next packet
StringNextPacketOp ==
  /\ pc = "extracted"
  /\ \E data \in {<<0, 0, 0, 2, 2>>, <<0, 0, 0, 2, 2, 2>>} :
       packet' = [m_data |-> data, m_readPos |-> 0, m_sendPos |-> 0,
                  m_isValid |-> TRUE]
  /\ input' = packet'
  /\ out' = OldValue("string")
  /\ pc' = "string"
  /\ UNCHANGED <<lastOp, host, sizeW, tcp, net, sockets, os, selector>>

StringNext == StringExtractOp \/ StringNextPacketOp

SpecString == StringInit /\ [][StringNext]_vars

\* the length that the four bytes at the read cursor declare
DeclaredLength(p) ==
  ToNat(Reverse(SubSeq(p.m_data, p.m_readPos + 1, p.m_readPos + 4)))

\* the length can be read and is more than what is left behind it
LengthExceedsData(p) ==
  /\ p.m_isValid
  /\ Unread(p) >= 4
  /\ DeclaredLength(p) > Unread(p) - 4

\* C39: a std::string extracted from a valid packet whose length prefix can
\* be read and declares more than the bytes left makes the packet invalid,
\* leaves the string empty and the read cursor right behind the prefix:
\* four bytes are consumed, none of the body.
C39_LongStringConsumesThePrefix ==
  pc = "extracted" /\ LengthExceedsData(input)
    => /\ ~packet.m_isValid
       /\ out = <<>>
       /\ packet.m_readPos = input.m_readPos + 4
       /\ packet.m_data = input.m_data

\* the packet 00 00 00 02 02 was read as a string from its start: two
\* characters declared, one there
C39_Witness ==
  /\ pc = "extracted"
  /\ input = [m_data |-> <<0, 0, 0, 2, 2>>, m_readPos |-> 0, m_sendPos |-> 0,
              m_isValid |-> TRUE]
  /\ ~packet.m_isValid /\ packet.m_readPos = 4 /\ out = <<>>

(***************************************************************************)
(* The handle across a bind or listen that is refused for its address.     *)
(***************************************************************************)
\* the step is a listen or a bind with the Broadcast address
RefusedForBroadcast ==
  lastOp'.op \in {"listen", "bind"} /\ lastOp'.j = 0

\* the handle the object held before the step is closed by the step, once,
\* and is not the object's handle after it
EarlierHandleIsClosed(i) ==
  LET h == sockets[i].m_socket
  IN  h # invalidSocket =>
        /\ ~os'.handles[h].open
        /\ os'.handles[h].closes = os.handles[h].closes + 1
        /\ sockets'[i].m_socket # h

\* after the step the object holds a handle the step created: open, not
\* bound and not listening
HoldsNewUnboundHandle(i) ==
  LET n == sockets'[i].m_socket
  IN  /\ n # invalidSocket
      /\ n > Len(os.handles)
      /\ IsOpen(os', n)
      /\ os'.handles[n].bound = 0
      /\ ~os'.handles[n].listening

\* after the step the object holds no handle and the step created none
HoldsNoHandle(i) ==
  /\ sockets'[i].m_socket = invalidSocket
  /\ Len(os'.handles) = Len(os.handles)

\* C40 as stated: a bind or listen refused for the Broadcast address has
\* closed the handle held before and leaves the object with a newly
\* created, unbound handle.
C40_RefusedCallLeavesANewHandle ==
  [][ RefusedForBroadcast =>
        /\ EarlierHandleIsClosed(lastOp'.i)
        /\ HoldsNewUnboundHandle(lastOp'.i) ]_vars

\* C40, amended: a bind or listen refused for the Broadcast address has
\* closed the handle held before, whatever was bound to it, and leaves the
\* object with a newly created, unbound handle, or with no handle at all
\* when socket() failed.
C40_RefusedCallDropsTheEarlierHandle ==
  [][ RefusedForBroadcast =>
        /\ EarlierHandleIsClosed(lastOp'.i)
        /\ HoldsNewUnboundHandle(lastOp'.i) \/ HoldsNoHandle(lastOp'.i) ]_vars

\* bind with Broadcast on a datagram socket that was bound to port 7: the
\* bound handle is closed and the socket holds another, unbound one
C40_Witness ==
  /\ lastOp = Did("bind", Datagram, 0, "Error")
  /\ \E h \in 1..Len(os.handles) :
       /\ ~os.handles[h].open /\ os.handles[h].closes = 1
       /\ h < sockets[Datagram].m_socket
  /\ IsOpen(os, sockets[Datagram].m_socket)
  /\ os.handles[sockets[Datagram].m_socket].bound = 0
  /\ os.calls = <<"close", "socket", "fcntl", "setsockopt">>

(***************************************************************************)
(* SpecAccept: a non-blocking stream socket is connected to a peer that    *)
(* sends one frame; the caller calls receive(Packet&) on it as the bytes   *)
(* arrive, and at some moment accepts a new connection into the same       *)
(* socket.  The new peer sends one frame of its own.                       *)
(***************************************************************************)
\* the socket that is connected and then accepted into
Accepted == 2

AcceptInit ==
  /\ host \in HostOrders
  /\ sizeW \in SizeWidths
  /\ LET w0 == listen(NewWorld, Listener, 7, AnyAddress, AllGood).w
         w1 == accept(w0, Listener, Accepted, "unix", TRUE, "EWOULDBLOCK").w
         w  == setBlocking(w1, Accepted, FALSE)
     IN  sockets = w.sockets /\ os = w.os
  /\ \E l1 \in 0..MaxPayload : \E l2 \in 0..MaxPayload :
       /\ input = [old |-> Payload(200, l1), new |-> Payload(100, l2)]
       /\ net = [stream |-> WireFrame(Payload(200, l1)), avail |-> <<>>,
                 closed |-> FALSE, status |-> "none"]
  /\ packet = StalePacket
  /\ out = <<>>
  /\ lastOp = Did("setBlocking", Accepted, 0, "none")
  /\ selector = SelectorIdle
  /\ pc = "connected"
  /\ tcp = NewTcpSocket

\* listener.accept(socket): Socket::close and Socket::create(handle) on the
\* destination, whose m_pendingPacket no statement of accept touches; the
\* bytes of the earlier connection that were not read are gone with its
\* handle
AcceptIntoOp ==
  /\ pc = "connected"
  /\ \E pending \in BOOLEAN :
       LET r == accept(World, Listener, Accepted, "unix", pending,
                       "EWOULDBLOCK")
       IN  /\ sockets' = r.w.sockets /\ os' = r.w.os
           /\ lastOp' = Did("accept", Listener, Accepted, r.status)
           /\ IF r.status = "Done"
              THEN /\ net' = [stream |-> WireFrame(input.new),
                              avail |-> <<>>, closed |-> FALSE,
                              status |-> "none"]
                   /\ pc' = "accepted"
              ELSE UNCHANGED <<net, pc>>
  /\ UNCHANGED <<packet, out, host, sizeW, input, tcp, selector>>

\* socket.receive(packet); the first call after the accept is remembered
AcceptReceiveOp ==
  /\ pc \in {"connected", "accepted"}
  /\ LET r == ReceivePacket(tcp, packet, net.avail, net.closed, 0)
     IN  /\ tcp' = r.sock
         /\ packet' = r.p
         /\ net' = [net EXCEPT !.avail = r.avail, !.status = r.status]
  /\ pc' = IF pc = "accepted" THEN "received" ELSE pc
  /\ UNCHANGED <<out, lastOp, host, sizeW, input, sockets, os, selector>>

AcceptNext == Deliver \/ AcceptIntoOp \/ AcceptReceiveOp

SpecAccept == AcceptInit /\ [][AcceptNext]_vars

\* C36: after a successful accept into a socket that was connected and had
\* received a part of a frame, the pending packet is empty, and the first
\* receive(Packet&) on the accepted connection that returns Done delivers
\* the frame the new peer sent: its first 4 bytes were read as the length.
C36_AcceptedSocketStartsAFrame ==
  /\ pc = "accepted" => PendingIsEmpty
  /\ (pc = "received" /\ net.status = "Done") =>
        packet.m_data = input.new /\ net.avail = <<>>

\* as long as no call on the earlier connection left a frame in progress,
\* the accepted socket reads the new peer's frame from its first byte
EmptyBeforeIsEmptyAfter ==
  [][ (lastOp'.op = "accept" /\ pc' = "accepted" /\ PendingIsEmpty)
        => PendingIsEmpty' ]_vars

(***************************************************************************)
(* TcpServer: the selector between the threads and the order of the        *)
(* callbacks, under SpecServer.                                            *)
(***************************************************************************)
\* the server thread is in m_selector.wait or at isReady(m_listener),
\* neither of which is under m_mutex
InSelector == pc.server \in {"wait", "accept"}

\* the step adds a socket to m_selector or removes one
SelectorChanges == selector'.registered # selector.registered

\* C31: no add or remove on m_selector, by start, stop, disconnect or the
\* accept path, is executed while the server thread is inside wait or
\* isReady on it.
C31_SelectorIsSerialized ==
  [][SelectorChanges => ~InSelector]_vars

\* start adds the listener before the thread exists, stop removes after
\* the join, and the server thread's own adds and removes are not inside
\* its wait: only disconnect meets the thread in the selector
OnlyDisconnectMeetsTheWait ==
  [][SelectorChanges /\ InSelector
       => lastOp'.op = "disconnecting" /\ tcp'.m_mutex = "caller"]_vars

\* C32: onDisconnection is called at most once for each ClientId.
C32_OneDisconnectionPerClient ==
  \A id \in 1..MaxClients : input.disconnections[id] <= 1

\* a second call for an id is made by the removal loop of the server
\* thread, after disconnect(id) has made the first
SecondCallIsTheRemovalLoop ==
  [][\A id \in 1..MaxClients :
       (input'.disconnections[id] = 2 /\ input.disconnections[id] = 1)
         => /\ pc.server = "onDisconnection" /\ out.id = id
            /\ id \notin tcp.m_clients]_vars

\* the step is a call of onDisconnection(id)
CallsDisconnection(id) ==
  input'.disconnections[id] > input.disconnections[id]

\* the step is a call of onMessage(id)
CallsMessage(id) ==
  pc.server = "onMessage" /\ pc'.server # "onMessage" /\ out.id = id

\* onMessage(id) is called after onConnection(id) and before any
\* onDisconnection(id)
MessagesAreInBetween ==
  [][\A id \in 1..MaxClients :
       CallsMessage(id) =>
         id \in input.connected /\ input.disconnections[id] = 0]_vars

\* C35: for each ClientId the callbacks come in the order onConnection,
\* onMessage any number of times, onDisconnection: no onMessage and no
\* onDisconnection before onConnection, no onMessage after
\* onDisconnection.
C35_CallbacksComeInOrder ==
  [][\A id \in 1..MaxClients :
       /\ CallsDisconnection(id) => id \in input.connected
       /\ CallsMessage(id) =>
            id \in input.connected /\ input.disconnections[id] = 0]_vars

(***************************************************************************)
(* TcpClient: the receive thread and the order of the callbacks, under     *)
(* SpecClient.                                                             *)
(***************************************************************************)
\* the step is the one in which connect, its m_socket.connect having
\* returned Done, assigns the new thread to m_receiveThread
AssignsTheThread ==
  /\ pc.caller = "connecting" /\ pc'.caller # "connecting"
  /\ net' = Connection(pc.port) /\ tcp'.m_running

\* C33: a TcpClient has at most one receive thread that is not joined:
\* connect never assigns a new thread to m_receiveThread while the thread
\* of an earlier connection is still joinable.
C33_ConnectFindsNoThread ==
  [][AssignsTheThread => tcp.m_thread = "none"]_vars

\* the step is a call of m_onMessage or of m_onDisconnected
CallsMessageOrDisconnected ==
  /\ pc.receiver \in {"onMessage", "onDisconnected"}
  /\ pc'.receiver # pc.receiver

\* C34: m_onConnected is called for a connection before m_onMessage or
\* m_onDisconnected is called for it.
C34_ConnectedIsAnnouncedFirst ==
  [][CallsMessageOrDisconnected => input.announced]_vars

\* the connections tryReconnect makes are announced before the receive
\* loop reads from them
ReconnectionsAreAnnouncedFirst ==
  [][CallsMessageOrDisconnected /\ input.by = "tryReconnect"
       => input.announced]_vars

=============================================================================
